---- MODULE Spec2Model ----
(***************************************************************************)
(* Controller client and API-version resolver of the Headlamp Sealed       *)
(* Secrets plugin: the retry-driven certificate fetch, the health probe,   *)
(* verify / rotate, and the cached CRD version detection.                  *)
(***************************************************************************)
EXTENDS Integers, Sequences, FiniteSets, TLC

----------------------------------------------------------------------------
(* Bounds of the model *)

MaxCalls == 1          \* retry-driven invocations in flight together
MaxAttemptsBound == 4  \* largest maxAttempts handed to the generic driver
MaxJitter == 12000     \* largest jitter magnitude drawn, in ms

Calls == 1..MaxCalls

----------------------------------------------------------------------------
(* Result type *)

Ok(v) == [ok |-> TRUE, value |-> v]

Err(e) == [ok |-> FALSE, error |-> e]

NoResult == [ok |-> FALSE, error |-> "<pending>"]

\* What an async closure does: returns a value or throws an error object.
Return(v) == [thrown |-> FALSE, value |-> v]

Throw(name, message) == [thrown |-> TRUE, error |-> [name |-> name, message |-> message]]

tryCatchAsync(completion) ==
    IF completion.thrown THEN Err(completion.error) ELSE Ok(completion.value)

PEMCertificate(text) == text

----------------------------------------------------------------------------
(* The network as seen through fetch(): a response, or a rejection *)

Response(status, statusText, body, version) ==
    [type |-> "response", status |-> status, statusText |-> statusText,
     body |-> body, version |-> version, name |-> "", message |-> ""]

Rejection(name, message) ==
    [type |-> "error", status |-> 0, statusText |-> "",
     body |-> "", version |-> "", name |-> name, message |-> message]

ResponseOk(r) == r.status >= 200 /\ r.status <= 299

PemText == "-----BEGIN CERTIFICATE-----MIIB-----END CERTIFICATE-----"

\* A 2xx body that is no certificate, as a proxy in front of the controller
\* may answer.
HtmlText == "<html><body>Sign in</body></html>"

NetworkFailure == Rejection("TypeError", "Failed to fetch")

CertOutcomes ==
    { Response(200, "OK", PemText, ""),
      Response(200, "OK", HtmlText, ""),
      Response(503, "Service Unavailable", "", ""),
      Response(404, "Not Found", "", ""),
      NetworkFailure }

----------------------------------------------------------------------------
(* Plugin configuration *)

DefaultConfig ==
    [controllerName |-> "sealed-secrets-controller",
     controllerNamespace |-> "kube-system",
     controllerPort |-> 8080]

Configs ==
    { DefaultConfig,
      [controllerName |-> "sealer", controllerNamespace |-> "ops",
       controllerPort |-> 9090] }

\* JSON null where a config is expected: a value that is no object.
NullConfig == [null |-> TRUE]

\* What localStorage.getItem() can hold under the plugin's key (NoItem: no
\* entry), and what JSON.parse makes of it.
NoItem == "<no item>"

StoredTexts ==
    { NoItem, "",
      "{\"controllerName\":\"sealer\",\"controllerNamespace\":\"ops\",\"controllerPort\":9090}",
      "{\"controllerName\":\"sealer\"}",
      "null",
      "{controllerName" }

DefaultConfigText ==
    "{\"controllerName\":\"sealed-secrets-controller\",\"controllerNamespace\":\"kube-system\",\"controllerPort\":8080}"

JSONStringify(config) ==
    "{\"controllerName\":\"" \o config.controllerName
        \o "\",\"controllerNamespace\":\"" \o config.controllerNamespace
        \o "\",\"controllerPort\":" \o ToString(config.controllerPort) \o "}"

JSONParse(text) ==
    IF text = DefaultConfigText THEN Return(DefaultConfig)
    ELSE IF text = "{\"controllerName\":\"sealer\",\"controllerNamespace\":\"ops\",\"controllerPort\":9090}"
    THEN Return([controllerName |-> "sealer", controllerNamespace |-> "ops",
                 controllerPort |-> 9090])
    ELSE IF text = "{\"controllerName\":\"sealer\"}"
    THEN Return([controllerName |-> "sealer"])
    ELSE IF text = "null" THEN Return(NullConfig)
    ELSE Throw("SyntaxError", "Unexpected token in JSON")

\* Faulty variant: JSON.parse outside the try block.
getPluginConfigUncaught(stored) ==
    IF stored \notin {NoItem, ""} THEN JSONParse(stored) ELSE Return(DefaultConfig)

\* The call as a completion: the parsed text unless it is absent, empty or
\* JSON.parse throws, and the default otherwise.
getPluginConfigCall(stored) ==
    IF stored \notin {NoItem, ""} /\ ~JSONParse(stored).thrown
    THEN JSONParse(stored)
    ELSE Return(DefaultConfig)

getPluginConfig(stored) == getPluginConfigCall(stored).value

\* `${config[field]}` in a template string; a missing property reads undefined.
Interpolate(config, field) ==
    IF field \notin DOMAIN config THEN "undefined"
    ELSE IF field = "controllerPort" THEN ToString(config[field])
    ELSE config[field]

\* Faulty variant: service name and namespace change places.
getControllerProxyURLSwapped(config, path) ==
    IF config = NullConfig
    THEN Throw("TypeError", "Cannot destructure property 'controllerNamespace' of 'config' as it is null.")
    ELSE Return("/api/v1/namespaces/" \o Interpolate(config, "controllerName")
            \o "/services/http:" \o Interpolate(config, "controllerNamespace")
            \o ":" \o Interpolate(config, "controllerPort")
            \o "/proxy" \o path)

\* Returns the URL, or throws the TypeError of destructuring null.
getControllerProxyURL(config, path) ==
    IF config = NullConfig
    THEN Throw("TypeError", "Cannot destructure property 'controllerNamespace' of 'config' as it is null.")
    ELSE Return("/api/v1/namespaces/" \o Interpolate(config, "controllerNamespace")
            \o "/services/http:" \o Interpolate(config, "controllerName")
            \o ":" \o Interpolate(config, "controllerPort")
            \o "/proxy" \o path)

Request(method, url, body) == [method |-> method, url |-> url, body |-> body]

----------------------------------------------------------------------------
VARIABLES
    retry,    \* the retry-driven invocations, one record per call
    health,   \* the checkControllerHealth invocation
    now,      \* Date.now(), in ms
    post,     \* the verifySealedSecret and rotateSealedSecret invocations
    detectedVersion,  \* SealedSecret.detectedVersion, the cached API version
    detect,   \* the detectApiVersion invocations, one record per call slot
    lastDetect, \* how the latest detectApiVersion return ended, since the last clear
    cleared,  \* whether clearVersionCache() ran since the latest detectApiVersion() call
    localStorage, \* the text stored under 'sealed-secrets-plugin-config'
    applied,  \* the latest call of a configuration function, with what it gave
    rng,      \* how many values the random source has handed out
    sealed,   \* the values sealed so far, in order
    unsealed, \* the controller's latest attempt to unseal the latest sealed value
    flow,     \* the seal-and-create flow of the encrypt dialog
    sent,     \* the requests the flow sent besides the certificate fetch
    metadata, \* metadata of the SealedSecret object at hand
    scopeRead, \* what its scope getter returned
    component, \* the ControllerStatus component: its state and its interval
    probes    \* the checkControllerHealth() calls ControllerStatus started

vars == <<retry, health, now, post, detectedVersion, detect, lastDetect, cleared,
          localStorage, applied, rng, sealed, unsealed, flow, sent,
          metadata, scopeRead, component, probes>>

clientVars == <<health, now, post>>

crdVars == <<detectedVersion, detect, lastDetect, cleared>>

configVars == <<localStorage, applied>>

engineVars == <<rng, sealed, unsealed>>

flowVars == <<flow, sent>>

uiVars == <<metadata, scopeRead, component, probes>>

libVars == <<configVars, engineVars, flowVars, uiVars>>

NoOutcome ==
    [type |-> "none", status |-> 0, statusText |-> "",
     body |-> "", version |-> "", name |-> "", message |-> ""]

IdleHealth ==
    [pc |-> "idle", timer |-> "unset", deadline |-> 0, aborted |-> FALSE,
     startTime |-> 0, requests |-> <<>>, outcome |-> NoOutcome,
     timedOut |-> FALSE, result |-> NoResult]

PostOps == {"verifySealedSecret", "rotateSealedSecret"}

IdlePost ==
    [pc |-> "idle", requests |-> <<>>, outcome |-> NoOutcome, result |-> NoResult]

Null == "<null>"

\* A CRD object as response.json() yields it; parses = FALSE is a body that
\* is not JSON.
Crd(parses, hasSpec, group, versions) ==
    [parses |-> parses, hasSpec |-> hasSpec, group |-> group, versions |-> versions]

CrdResponse(status, statusText, crd) ==
    [type |-> "response", status |-> status, statusText |-> statusText,
     body |-> crd, version |-> "", name |-> "", message |-> ""]

CrdRejection(name, message) ==
    [type |-> "error", status |-> 0, statusText |-> "",
     body |-> Crd(FALSE, FALSE, "", <<>>), version |-> "",
     name |-> name, message |-> message]

NoCrdOutcome ==
    [type |-> "none", status |-> 0, statusText |-> "",
     body |-> Crd(FALSE, FALSE, "", <<>>), version |-> "",
     name |-> "", message |-> ""]

IdleDetect ==
    [pc |-> "idle", requests |-> <<>>, outcome |-> NoCrdOutcome,
     cachedAtCall |-> Null, afterOk |-> FALSE, cacheAfter |-> Null,
     firstAfterClear |-> "no", result |-> NoResult,
     caller |-> "", endpoint |-> NoResult]

MaxDetects == 2    \* detectApiVersion call slots

Detects == 1..MaxDetects

CrdIdle ==
    /\ detectedVersion = Null
    /\ detect = [d \in Detects |-> IdleDetect]
    /\ lastDetect = "none"
    /\ cleared = "no"

ClientIdle ==
    /\ health = IdleHealth
    /\ now = 0
    /\ post = [o \in PostOps |-> IdlePost]

NoApplication ==
    [op |-> "none", stored |-> NoItem, config |-> DefaultConfig, path |-> "",
     thrown |-> FALSE, url |-> "", returned |-> DefaultConfig]

NoUnseal == [tried |-> FALSE]

NoMetadata == [name |-> "", namespace |-> ""]

Unread == "<unread>"

\* ControllerStatus before React mounted it: status null, loading true.
\* shown is the probe whose result status holds; dropped counts the state
\* updates React discarded because the component was unmounted.
NotMounted ==
    [mounted |-> FALSE, unmounted |-> FALSE, interval |-> "none",
     loading |-> TRUE, status |-> Null, shown |-> 0, dropped |-> 0]

IdleFlow == [pc |-> "idle"]

LibIdle ==
    /\ localStorage = NoItem
    /\ applied = NoApplication
    /\ rng = 0
    /\ sealed = <<>>
    /\ unsealed = NoUnseal
    /\ flow = IdleFlow
    /\ sent = <<>>
    /\ metadata = NoMetadata
    /\ scopeRead = Unread
    /\ component = NotMounted
    /\ probes = <<>>

----------------------------------------------------------------------------
(* Certificate fetch, one attempt *)

\* Faulty variant: the response status is not checked.
fetchPublicCertificateOnceUnchecked(e) ==
    IF e.type = "error"
    THEN Err("Unable to fetch controller certificate: " \o e.message)
    ELSE Ok(PEMCertificate(e.body))

fetchPublicCertificateOnce(e) ==
    LET result == tryCatchAsync(
            IF e.type = "error" THEN Throw(e.name, e.message)
            ELSE IF ~ResponseOk(e)
                 THEN Throw("Error", "Failed to fetch certificate: "
                                \o ToString(e.status) \o " " \o e.statusText)
                 ELSE Return(PEMCertificate(e.body)))
    IN  IF result.ok = FALSE
        THEN Err("Unable to fetch controller certificate: " \o result.error.message)
        ELSE result

\* Faulty variant: one attempt more.
fetchPublicCertificateOptionsFourAttempts ==
    [maxAttempts |-> 4, initialDelayMs |-> 1000, maxDelayMs |-> 10000]

\* Faulty variant: one attempt fewer.
fetchPublicCertificateOptionsTwoAttempts ==
    [maxAttempts |-> 2, initialDelayMs |-> 1000, maxDelayMs |-> 10000]

\* Faulty variant: the first delay is two seconds.
fetchPublicCertificateOptionsSlowStart ==
    [maxAttempts |-> 3, initialDelayMs |-> 2000, maxDelayMs |-> 10000]

\* Faulty variant: a cap ten times too large.
fetchPublicCertificateOptionsLooseCap ==
    [maxAttempts |-> 3, initialDelayMs |-> 1000, maxDelayMs |-> 100000]

fetchPublicCertificateOptions ==
    [maxAttempts |-> 3, initialDelayMs |-> 1000, maxDelayMs |-> 10000]

----------------------------------------------------------------------------
(* Retry / backoff driver *)

Min(a, b) == IF a <= b THEN a ELSE b

Max(a, b) == IF a >= b THEN a ELSE b

RECURSIVE Pow2(_)
Pow2(n) == IF n <= 0 THEN 1 ELSE 2 * Pow2(n - 1)

\* Failures the driver must not retry.
NonRetryableErrors == {"malformed input"}

\* Faulty variant: every failure is retried.
IsRetryableAlways(error) == TRUE

IsRetryable(error) == error \notin NonRetryableErrors

\* Delay before attempt (attempt + 1), before jitter.
BackoffBase(options, attempt) ==
    Min(options.initialDelayMs * Pow2(attempt - 1), options.maxDelayMs)

ApplyJitter(base, jitter, options) ==
    Max(0, Min(base + jitter, options.maxDelayMs))

ShouldRetry(options, attempt, result) ==
    /\ ~result.ok
    /\ attempt < options.maxAttempts
    /\ IsRetryable(result.error)

JitterDraws == {0 - MaxJitter, 0, MaxJitter}

RetryOptionsSet ==
    { fetchPublicCertificateOptions,
      [maxAttempts |-> 1, initialDelayMs |-> 1000, maxDelayMs |-> 10000],
      [maxAttempts |-> MaxAttemptsBound, initialDelayMs |-> 4000, maxDelayMs |-> 10000] }

OperationOutcomes == {Ok("value"), Err("transient failure"), Err("malformed input")}

IdleCall ==
    [pc |-> "idle", op |-> "", options |-> fetchPublicCertificateOptions,
     attempt |-> 0, log |-> <<>>, requests |-> <<>>, sleeps |-> 0,
     base |-> 0, delay |-> 0, result |-> NoResult]

\* Faulty variant: the attempt counter is shared by the calls in flight.
SettleSharedAttempts(c, event, r, jitter) ==
    LET call == retry[c]
        base == BackoffBase(call.options, call.attempt)
        logged == [call EXCEPT !.log = Append(@, event)]
        retrying == ShouldRetry(call.options, call.attempt, r)
    IN  retry' = [other \in DOMAIN retry |->
            IF other = c
            THEN IF retrying
                 THEN [logged EXCEPT !.pc = "sleeping", !.sleeps = @ + 1,
                                     !.base = base,
                                     !.delay = ApplyJitter(base, jitter, call.options)]
                 ELSE [logged EXCEPT !.pc = "done", !.result = r]
            ELSE IF retrying /\ retry[other].pc \in {"running", "sleeping"}
                 THEN [retry[other] EXCEPT !.attempt = @ + 1]
                 ELSE retry[other]]

\* The driver's step once attempt number retry[c].attempt settled with result r.
Settle(c, event, r, jitter) ==
    LET call == retry[c]
        base == BackoffBase(call.options, call.attempt)
        logged == [call EXCEPT !.log = Append(@, event)]
    IN  retry' = [retry EXCEPT ![c] =
            IF ShouldRetry(call.options, call.attempt, r)
            THEN [logged EXCEPT !.pc = "sleeping", !.sleeps = @ + 1,
                                !.base = base,
                                !.delay = ApplyJitter(base, jitter, call.options)]
            ELSE [logged EXCEPT !.pc = "done", !.result = r]]

\* The call for a config that is an object (for null the operation handed to
\* the driver rejects, and what the driver makes of that is not in this code).
fetchPublicCertificate(c, config) ==
    /\ retry[c].pc = "idle"
    /\ ~getControllerProxyURL(config, "/v1/cert.pem").thrown
    /\ UNCHANGED <<clientVars, crdVars, libVars>>
    /\ retry' = [retry EXCEPT ![c] =
            [IdleCall EXCEPT !.pc = "running", !.op = "fetchPublicCertificateOnce",
                             !.options = fetchPublicCertificateOptions,
                             !.attempt = 1,
                             !.requests = <<Request("GET",
                                 getControllerProxyURL(config, "/v1/cert.pem").value,
                                 "")>>]]

retryWithBackoff(c, options) ==
    /\ retry[c].pc = "idle"
    /\ UNCHANGED <<clientVars, crdVars, libVars>>
    /\ retry' = [retry EXCEPT ![c] =
            [IdleCall EXCEPT !.pc = "running", !.op = "operation",
                             !.options = options, !.attempt = 1]]

CertificateRequestSettles(c, e, jitter) ==
    /\ retry[c].pc = "running"
    /\ retry[c].op = "fetchPublicCertificateOnce"
    /\ Settle(c, e, fetchPublicCertificateOnce(e), jitter)
    /\ UNCHANGED <<clientVars, crdVars, libVars>>

OperationSettles(c, r, jitter) ==
    /\ retry[c].pc = "running"
    /\ retry[c].op = "operation"
    /\ Settle(c, r, r, jitter)
    /\ UNCHANGED <<clientVars, crdVars, libVars>>

\* The backoff sleep ends and the operation is executed again.
BackoffElapsed(c) ==
    /\ retry[c].pc = "sleeping"
    /\ UNCHANGED <<clientVars, crdVars, libVars>>
    /\ retry' = [retry EXCEPT ![c] =
            [@ EXCEPT !.pc = "running", !.attempt = @ + 1,
                      !.requests = IF retry[c].op = "fetchPublicCertificateOnce"
                                   THEN Append(@, @[1]) ELSE @]]

RetryInit ==
    /\ retry = [c \in Calls |-> IdleCall]
    /\ ClientIdle
    /\ CrdIdle
    /\ LibIdle

RetryNext ==
    \/ \E c \in Calls, config \in Configs : fetchPublicCertificate(c, config)
    \/ \E c \in Calls, options \in RetryOptionsSet : retryWithBackoff(c, options)
    \/ \E c \in Calls, e \in CertOutcomes, j \in JitterDraws :
           CertificateRequestSettles(c, e, j)
    \/ \E c \in Calls, r \in OperationOutcomes, j \in JitterDraws :
           OperationSettles(c, r, j)
    \/ \E c \in Calls : BackoffElapsed(c)

SpecRetry == RetryInit /\ [][RetryNext]_vars

\* Several retry-driven calls at once: certificate fetches and calls of the
\* driver with a cap of two attempts, interleaved at every suspension point.
ConcurrentCalls == 1..(MaxCalls + 1)

ConcurrentOptions == [maxAttempts |-> 2, initialDelayMs |-> 4000, maxDelayMs |-> 10000]

ConcurrentInit ==
    /\ retry = [c \in ConcurrentCalls |-> IdleCall]
    /\ ClientIdle
    /\ CrdIdle
    /\ LibIdle

ConcurrentNext ==
    \/ \E c \in ConcurrentCalls : fetchPublicCertificate(c, DefaultConfig)
    \/ \E c \in ConcurrentCalls : retryWithBackoff(c, ConcurrentOptions)
    \/ \E c \in ConcurrentCalls, e \in {Response(200, "OK", PemText, ""), NetworkFailure},
          j \in {0, 0 - MaxJitter} :
           CertificateRequestSettles(c, e, j)
    \/ \E c \in ConcurrentCalls, r \in {Ok("value"), Err("transient failure")},
          j \in {0, 0 - MaxJitter} :
           OperationSettles(c, r, j)
    \/ \E c \in ConcurrentCalls : BackoffElapsed(c)

SpecRetryConcurrent == ConcurrentInit /\ [][ConcurrentNext]_vars

\* Every request and operation in flight settles, and every sleep ends.
SpecRetryFair ==
    /\ SpecRetry
    /\ \A c \in Calls :
          /\ WF_vars(\E e \in CertOutcomes, j \in JitterDraws :
                        CertificateRequestSettles(c, e, j))
          /\ WF_vars(\E r \in OperationOutcomes, j \in JitterDraws :
                        OperationSettles(c, r, j))
          /\ WF_vars(BackoffElapsed(c))

----------------------------------------------------------------------------
(* Claims about the retry driver and the certificate fetch *)

IsCertCall(call) == call.op = "fetchPublicCertificateOnce"

\* Attempt i of the call succeeded: a 2xx response, or an Ok from the operation.
AttemptSucceeded(call, i) ==
    IF IsCertCall(call)
    THEN call.log[i].type = "response" /\ call.log[i].status \in 200..299
    ELSE call.log[i].ok

\* The result attempt i handed to the driver.
AttemptResult(call, i) ==
    IF ~IsCertCall(call) THEN call.log[i]
    ELSE IF call.log[i].type = "error"
    THEN Err("Unable to fetch controller certificate: " \o call.log[i].message)
    ELSE IF call.log[i].status \in 200..299 THEN Ok(call.log[i].body)
    ELSE Err("Unable to fetch controller certificate: Failed to fetch certificate: "
                \o ToString(call.log[i].status) \o " " \o call.log[i].statusText)

AttemptFatal(call, i) ==
    /\ ~IsCertCall(call)
    /\ ~call.log[i].ok
    /\ call.log[i].error = "malformed input"

\* The attempt cap the caller asked for (3 for the certificate fetch).
AttemptCap(call) == IF IsCertCall(call) THEN 3 ELSE call.options.maxAttempts

CertGet(r) == r.method = "GET" /\ r.body = "" /\ \E config \in Configs :
    r.url = "/api/v1/namespaces/" \o config.controllerNamespace
              \o "/services/http:" \o config.controllerName \o ":"
              \o ToString(config.controllerPort) \o "/proxy/v1/cert.pem"

\* C1: when the operation fails on attempts 1..N-1 and succeeds on attempt
\* N <= maxAttempts, the driver returns that success and the operation was
\* executed exactly N times (N GETs of /v1/cert.pem for the certificate
\* fetch, N <= 3); the driver returns Ok only so, never executes the
\* operation after a success, and never gives up on a retryable failure
\* before the cap.
RetrySuccessAfterNAttempts ==
    \A c \in Calls :
        LET call == retry[c]
            n == Len(call.log)
        IN  /\ \A i \in 1..(n - 1) : ~AttemptSucceeded(call, i)
            /\ (n > 0 /\ AttemptSucceeded(call, n)) =>
                    /\ call.pc = "done"
                    /\ call.result = AttemptResult(call, n)
                    /\ call.result.ok
                    /\ call.attempt = n
                    /\ n <= AttemptCap(call)
                    /\ IsCertCall(call) =>
                            /\ Len(call.requests) = n
                            /\ \A i \in 1..n : CertGet(call.requests[i])
            /\ (call.pc = "done" /\ call.result.ok) =>
                    n > 0 /\ AttemptSucceeded(call, n)
            /\ (call.pc = "done" /\ n < AttemptCap(call)) =>
                    call.result.ok \/ AttemptFatal(call, n)

\* A certificate fetch that failed twice (503, then a transport failure) and
\* succeeded on its third GET.
RetrySuccessAfterNAttemptsWitness ==
    \E c \in Calls :
        /\ retry[c].pc = "done"
        /\ IsCertCall(retry[c])
        /\ Len(retry[c].log) = 3
        /\ retry[c].log[1].status = 503
        /\ retry[c].log[2].type = "error"
        /\ retry[c].log[3].status = 200
        /\ retry[c].result = Ok(PemText)
        /\ Len(retry[c].requests) = 3

\* C2: when the operation fails (retryably) on every attempt, the driver
\* executes it exactly maxAttempts times and returns the failure of the last
\* attempt; the certificate fetch makes exactly 3 GETs, whether each failure
\* is a non-2xx response or a transport failure, and returns the Err of the
\* third attempt.
RetryExhaustion ==
    \A c \in Calls :
        LET call == retry[c]
            n == Len(call.log)
        IN  (/\ call.pc = "done"
             /\ \A i \in 1..n : ~AttemptSucceeded(call, i) /\ ~AttemptFatal(call, i)) =>
                /\ n = AttemptCap(call)
                /\ call.attempt = n
                /\ ~call.result.ok
                /\ call.result = AttemptResult(call, n)
                /\ IsCertCall(call) =>
                        /\ Len(call.requests) = 3
                        /\ \A i \in 1..3 : CertGet(call.requests[i])

\* A certificate fetch exhausted by a transport failure, a 503 and a 404, the
\* returned Err being the 404's.
RetryExhaustionWitness ==
    \E c \in Calls :
        /\ retry[c].pc = "done"
        /\ IsCertCall(retry[c])
        /\ Len(retry[c].log) = 3
        /\ retry[c].log[1].type = "error"
        /\ retry[c].log[2].status = 503
        /\ retry[c].log[3].status = 404
        /\ retry[c].result = Err("Unable to fetch controller certificate: Failed to fetch certificate: 404 Not Found")

\* C3: every delay the driver sleeps, after jitter, satisfies
\* 0 <= delay <= maxDelayMs (0 <= delay <= 10000 ms for the certificate fetch).
RetryDelayBounds ==
    \A c \in Calls :
        retry[c].sleeps > 0 =>
            /\ 0 <= retry[c].delay
            /\ retry[c].delay <= retry[c].options.maxDelayMs
            /\ IsCertCall(retry[c]) => retry[c].delay <= 10000

\* The certificate fetch in its second sleep, base 2000 ms, with a jitter
\* draw that would pass the cap: it sleeps exactly 10000 ms.
RetryDelayBoundsWitness ==
    \E c \in Calls :
        /\ retry[c].pc = "sleeping"
        /\ IsCertCall(retry[c])
        /\ retry[c].sleeps = 2
        /\ retry[c].base = 2000
        /\ retry[c].delay = 10000

\* C4: when the operation fails with a structurally non-retryable failure,
\* the driver returns that failure at once: after exactly one attempt and no
\* backoff sleep when it is the first failure, and in general with no
\* attempt and no sleep after it.
RetryStopsOnNonRetryable ==
    \A c \in Calls :
        LET call == retry[c]
            n == Len(call.log)
        IN  \A i \in 1..n :
                AttemptFatal(call, i) =>
                    /\ i = n
                    /\ call.pc = "done"
                    /\ call.result = call.log[i]
                    /\ call.attempt = i
                    /\ call.sleeps = i - 1

\* A driver allowed several attempts whose first attempt failed on malformed
\* input: one attempt, no sleep.
RetryStopsOnNonRetryableWitness ==
    \E c \in Calls :
        /\ retry[c].pc = "done"
        /\ retry[c].op = "operation"
        /\ retry[c].options.maxAttempts > 1
        /\ retry[c].log = <<Err("malformed input")>>
        /\ retry[c].attempt = 1
        /\ retry[c].sleeps = 0
        /\ retry[c].result = Err("malformed input")

----------------------------------------------------------------------------
(* Health probe: one GET of /healthz under a 5 s abort timer *)

HealthTimeoutMs == 5000

TickMs == 2500     \* how far the clock moves in one step of the model

Undefined == "<undefined>"

AbortError == Rejection("AbortError", "The user aborted a request.")

HealthOutcomes ==
    { Response(200, "OK", "ok", "0.24.0"),
      Response(200, "OK", "ok", ""),
      Response(503, "Service Unavailable", "", ""),
      Response(404, "Not Found", "", ""),
      NetworkFailure,
      Rejection("Error", "") }

\* The try block after the response arrived.
HealthTry(response, latencyMs) ==
    IF ~ResponseOk(response)
    THEN Ok([healthy |-> FALSE, reachable |-> TRUE, latencyMs |-> latencyMs,
             error |-> "HTTP " \o ToString(response.status) \o ": "
                          \o response.statusText])
    ELSE Ok([healthy |-> TRUE, reachable |-> TRUE,
             version |-> IF response.version # "" THEN response.version
                         ELSE Undefined,
             latencyMs |-> latencyMs])

\* Faulty variant: the AbortError branch is missing.
HealthCatchNoAbortBranch(error, latencyMs) ==
    Ok([healthy |-> FALSE, reachable |-> FALSE, latencyMs |-> latencyMs,
        error |-> IF error.message # "" THEN error.message
                  ELSE "Controller unreachable"])

\* Faulty variant: unreachability goes through the error channel.
HealthCatchErr(error, latencyMs) ==
    Err(IF error.name = "AbortError" THEN "Request timed out after 5 seconds"
        ELSE IF error.message # "" THEN error.message
        ELSE "Controller unreachable")

\* The catch block.
HealthCatch(error, latencyMs) ==
    LET errorMessage ==
            IF error.name = "AbortError" THEN "Request timed out after 5 seconds"
            ELSE IF error.message # "" THEN error.message
            ELSE "Controller unreachable"
    IN  Ok([healthy |-> FALSE, reachable |-> FALSE, latencyMs |-> latencyMs,
            error |-> errorMessage])

\* The URL is built inside the try block: a throw there lands in the catch
\* block before any timer or request exists.
checkControllerHealth(config) ==
    /\ health.pc = "idle"
    /\ LET url == getControllerProxyURL(config, "/healthz")
       IN  health' =
            IF url.thrown
            THEN [IdleHealth EXCEPT
                    !.pc = "done", !.startTime = now,
                    !.result = HealthCatch(url.error, 0)]
            ELSE [IdleHealth EXCEPT
                    !.pc = "fetching", !.startTime = now,
                    !.timer = "armed", !.deadline = now + HealthTimeoutMs,
                    !.requests = <<Request("GET", url.value, "")>>]
    /\ UNCHANGED <<retry, now, post, crdVars, libVars>>

\* The fetch settles before any abort: a response, or a transport failure.
HealthRequestSettles(e) ==
    /\ health.pc = "fetching"
    /\ ~health.aborted
    /\ health' = [health EXCEPT
            !.pc = "done", !.outcome = e,
            !.timer = IF e.type = "response" THEN "cleared" ELSE @,
            !.result = IF e.type = "response"
                       THEN HealthTry(e, now - health.startTime)
                       ELSE HealthCatch(e, now - health.startTime)]
    /\ UNCHANGED <<retry, now, post, crdVars, libVars>>

\* Faulty variant: the timer callback does not abort the request.
HealthTimerFiresNoAbort ==
    /\ health.timer = "armed"
    /\ now >= health.deadline
    /\ health' = [health EXCEPT !.timer = "fired"]
    /\ UNCHANGED <<retry, now, post, crdVars, libVars>>

\* The timer callback: controller.abort().
HealthTimerFires ==
    /\ health.timer = "armed"
    /\ now >= health.deadline
    /\ health' = [health EXCEPT !.timer = "fired", !.aborted = TRUE]
    /\ UNCHANGED <<retry, now, post, crdVars, libVars>>

\* The aborted fetch rejects with AbortError and the catch block runs.
HealthAbortDelivered ==
    /\ health.pc = "fetching"
    /\ health.aborted
    /\ health' = [health EXCEPT
            !.pc = "done", !.outcome = AbortError, !.timedOut = TRUE,
            !.result = HealthCatch(AbortError, now - health.startTime)]
    /\ UNCHANGED <<retry, now, post, crdVars, libVars>>

\* Time passes, never past the deadline of an armed timer.
Tick ==
    /\ health.timer = "armed"
    /\ now < health.deadline
    /\ now' = IF now + TickMs <= health.deadline THEN now + TickMs
              ELSE health.deadline
    /\ UNCHANGED <<retry, health, post, crdVars, libVars>>

----------------------------------------------------------------------------
(* verify and rotate: one POST each *)

Manifests == {"{\"kind\":\"SealedSecret\"}"}

RotatedManifest == "{\"kind\":\"SealedSecret\",\"rotated\":true}"

PostOutcomes ==
    { Response(200, "OK", RotatedManifest, ""),
      Response(409, "Conflict", "", ""),
      Response(500, "Internal Server Error", "", ""),
      NetworkFailure }

\* Faulty variant: a non-2xx answer is reported as an error.
VerifyResultThrowing(e) ==
    IF e.type = "error" THEN Err("Verification failed: " \o e.message)
    ELSE IF ~ResponseOk(e)
    THEN Err("Verification failed: " \o ToString(e.status) \o " " \o e.statusText)
    ELSE Ok(TRUE)

VerifyResult(e) ==
    LET result == tryCatchAsync(
            IF e.type = "error" THEN Throw(e.name, e.message)
            ELSE Return(ResponseOk(e)))
    IN  IF result.ok = FALSE
        THEN Err("Verification failed: " \o result.error.message)
        ELSE result

\* Faulty variant: the response status is not checked.
RotateResultUnchecked(e) ==
    IF e.type = "error"
    THEN Err("Unable to rotate SealedSecret: " \o e.message)
    ELSE Ok(e.body)

\* Faulty variant: the thrown error does not carry the status.
RotateResultNoStatus(e) ==
    IF e.type = "error"
    THEN Err("Unable to rotate SealedSecret: " \o e.message)
    ELSE IF ~ResponseOk(e) THEN Err("Unable to rotate SealedSecret: Rotation failed")
    ELSE Ok(e.body)

RotateResult(e) ==
    LET result == tryCatchAsync(
            IF e.type = "error" THEN Throw(e.name, e.message)
            ELSE IF ~ResponseOk(e)
                 THEN Throw("Error", "Rotation failed: " \o ToString(e.status)
                                \o " " \o e.statusText)
                 ELSE Return(e.body))
    IN  IF result.ok = FALSE
        THEN Err("Unable to rotate SealedSecret: " \o result.error.message)
        ELSE result

\* The URL is built before tryCatchAsync: a throw there rejects the call, and
\* result then holds what was thrown instead of a Result.
PostStart(op, path, config, sealedSecretYaml) ==
    /\ post[op].pc = "idle"
    /\ LET url == getControllerProxyURL(config, path)
       IN  post' = [post EXCEPT ![op] =
            IF url.thrown
            THEN [IdlePost EXCEPT !.pc = "done", !.result = url]
            ELSE [IdlePost EXCEPT !.pc = "fetching",
                                  !.requests = <<Request("POST", url.value,
                                                         sealedSecretYaml)>>]]
    /\ UNCHANGED <<retry, health, now, crdVars, libVars>>

PostSettle(op, e, result) ==
    /\ post[op].pc = "fetching"
    /\ post' = [post EXCEPT ![op] =
            [@ EXCEPT !.pc = "done", !.outcome = e, !.result = result]]
    /\ UNCHANGED <<retry, health, now, crdVars, libVars>>

verifySealedSecret(config, sealedSecretYaml) ==
    PostStart("verifySealedSecret", "/v1/verify", config, sealedSecretYaml)

rotateSealedSecret(config, sealedSecretYaml) ==
    PostStart("rotateSealedSecret", "/v1/rotate", config, sealedSecretYaml)

\* Faulty variant: a transport failure makes verify send the request again.
VerifyRequestSettlesRetrying(e) ==
    IF e.type = "error"
    THEN /\ post["verifySealedSecret"].pc = "fetching"
         /\ Len(post["verifySealedSecret"].requests) < 3
         /\ post' = [post EXCEPT !["verifySealedSecret"].requests = Append(@, @[1])]
         /\ UNCHANGED <<retry, health, now, crdVars, libVars>>
    ELSE PostSettle("verifySealedSecret", e, VerifyResult(e))

VerifyRequestSettles(e) == PostSettle("verifySealedSecret", e, VerifyResult(e))

RotateRequestSettles(e) == PostSettle("rotateSealedSecret", e, RotateResult(e))

ClientInit ==
    /\ retry = [c \in Calls |-> IdleCall]
    /\ ClientIdle
    /\ CrdIdle
    /\ LibIdle

ClientNext ==
    \/ \E config \in Configs : checkControllerHealth(config)
    \/ \E e \in HealthOutcomes : HealthRequestSettles(e)
    \/ HealthTimerFires
    \/ HealthAbortDelivered
    \/ Tick
    \/ \E config \in Configs, yaml \in Manifests : verifySealedSecret(config, yaml)
    \/ \E config \in Configs, yaml \in Manifests : rotateSealedSecret(config, yaml)
    \/ \E e \in PostOutcomes : VerifyRequestSettles(e)
    \/ \E e \in PostOutcomes : RotateRequestSettles(e)

SpecClient == ClientInit /\ [][ClientNext]_vars

\* The same operations called with whatever getPluginConfig() returns.
BoundaryNext ==
    \/ \E stored \in StoredTexts : checkControllerHealth(getPluginConfig(stored))
    \/ \E e \in HealthOutcomes : HealthRequestSettles(e)
    \/ HealthTimerFires
    \/ HealthAbortDelivered
    \/ Tick
    \/ \E stored \in StoredTexts, yaml \in Manifests :
           verifySealedSecret(getPluginConfig(stored), yaml)
    \/ \E stored \in StoredTexts, yaml \in Manifests :
           rotateSealedSecret(getPluginConfig(stored), yaml)
    \/ \E e \in PostOutcomes : VerifyRequestSettles(e)
    \/ \E e \in PostOutcomes : RotateRequestSettles(e)

SpecBoundary == ClientInit /\ [][BoundaryNext]_vars

\* Timers fire and rejected promises are delivered; the network owes nothing.
SpecClientFair ==
    /\ SpecClient
    /\ WF_vars(Tick)
    /\ WF_vars(HealthTimerFires)
    /\ WF_vars(HealthAbortDelivered)

----------------------------------------------------------------------------
(* Claims about the health probe, verify and rotate *)

\* C5: checkControllerHealth classifies every probe into exactly one of three
\* outcomes: a 2xx response gives healthy and reachable; a non-2xx response
\* gives not healthy but reachable, with the HTTP status in error; a transport
\* failure or the 5000 ms deadline firing before a response gives neither
\* healthy nor reachable, the error text being the timed-out text exactly when
\* the deadline fired, and otherwise the transport failure's message (the
\* generic 'Controller unreachable' when it has none).
HealthClassification ==
    health.pc = "done" =>
        LET e == health.outcome
            v == health.result.value
        IN  /\ health.result.ok
            /\ (e.type = "response" /\ e.status \in 200..299) =>
                    /\ v.healthy /\ v.reachable
                    /\ ~health.timedOut
            /\ (e.type = "response" /\ e.status \notin 200..299) =>
                    /\ ~v.healthy /\ v.reachable
                    /\ v.error = "HTTP " \o ToString(e.status) \o ": " \o e.statusText
                    /\ ~health.timedOut
            /\ e.type = "error" =>
                    /\ ~v.healthy /\ ~v.reachable
                    /\ (v.error = "Request timed out after 5 seconds") <=> health.timedOut
                    /\ health.timedOut => v.latencyMs >= 5000
                    /\ ~health.timedOut =>
                            v.error = IF e.message # "" THEN e.message
                                      ELSE "Controller unreachable"
            /\ e.type \in {"response", "error"}

\* The deadline fired with no response: unreachable, reported as timed out.
HealthClassificationWitness ==
    /\ health.pc = "done"
    /\ health.timedOut
    /\ health.timer = "fired"
    /\ now = 5000
    /\ health.result.value.reachable = FALSE
    /\ health.result.value.error = "Request timed out after 5 seconds"

\* C6: checkControllerHealth never returns the failure variant: for every
\* config and every network behaviour (2xx, non-2xx, transport error, abort by
\* the deadline) the Result has ok = TRUE and carries a status record.
HealthNeverFails ==
    health.pc = "done" =>
        /\ health.result.ok = TRUE
        /\ {"healthy", "reachable"} \subseteq DOMAIN health.result.value
        /\ health.result.value.healthy \in BOOLEAN
        /\ health.result.value.reachable \in BOOLEAN

\* A probe ended by a transport failure still returns Ok with a status.
HealthNeverFailsWitness ==
    /\ health.pc = "done"
    /\ health.outcome = NetworkFailure
    /\ health.result.ok
    /\ health.result.value.error = "Failed to fetch"

\* C7: checkControllerHealth always eventually returns: even when the
\* controller never responds, the deadline timer fires, the request is aborted
\* and the call completes.
HealthEventuallyReturns == (health.pc = "fetching") ~> (health.pc = "done")

\* The controller never responded: the call completed at the deadline through
\* the abort, with reachable = FALSE.
HealthEventuallyReturnsWitness ==
    /\ health.pc = "done"
    /\ health.outcome = AbortError
    /\ health.aborted
    /\ now - health.startTime = HealthTimeoutMs
    /\ health.result = Ok([healthy |-> FALSE, reachable |-> FALSE,
                           latencyMs |-> 5000,
                           error |-> "Request timed out after 5 seconds"])

OneRequest(requests, method, path) ==
    /\ Len(requests) = 1
    /\ requests[1].method = method
    /\ \E config \in Configs :
          requests[1].url = "/api/v1/namespaces/" \o config.controllerNamespace
              \o "/services/http:" \o config.controllerName \o ":"
              \o ToString(config.controllerPort) \o "/proxy" \o path

\* C8: each invocation of checkControllerHealth, verifySealedSecret and
\* rotateSealedSecret issues exactly one network request, whatever its
\* outcome (success, non-2xx, transport failure or timeout).
SingleRequestOperations ==
    /\ health.pc # "idle" => OneRequest(health.requests, "GET", "/healthz")
    /\ post["verifySealedSecret"].pc # "idle" =>
            OneRequest(post["verifySealedSecret"].requests, "POST", "/v1/verify")
    /\ post["rotateSealedSecret"].pc # "idle" =>
            OneRequest(post["rotateSealedSecret"].requests, "POST", "/v1/rotate")

\* All three returned after a failure of different kinds (timeout, transport
\* failure, non-2xx), each having sent one request.
SingleRequestOperationsWitness ==
    /\ health.pc = "done" /\ health.timedOut
    /\ post["verifySealedSecret"].pc = "done"
    /\ post["verifySealedSecret"].outcome = NetworkFailure
    /\ post["rotateSealedSecret"].pc = "done"
    /\ post["rotateSealedSecret"].outcome.status = 500
    /\ Len(health.requests) = 1
    /\ Len(post["verifySealedSecret"].requests) = 1
    /\ Len(post["rotateSealedSecret"].requests) = 1

----------------------------------------------------------------------------
(* API-version resolver: SealedSecret.detectApiVersion and its cache *)

DEFAULT_VERSION == "bitnami.com/v1alpha1"

CrdURL == "/apis/apiextensions.k8s.io/v1/customresourcedefinitions/sealedsecrets.bitnami.com"

Version(name, served, storage) ==
    [name |-> name, served |-> served, storage |-> storage]

CrdOutcomes ==
    { CrdResponse(200, "OK", Crd(TRUE, TRUE, "bitnami.com",
          <<Version("v1alpha1", TRUE, TRUE)>>)),
      CrdResponse(200, "OK", Crd(TRUE, TRUE, "bitnami.com",
          <<Version("v1alpha1", TRUE, FALSE), Version("v1", TRUE, TRUE)>>)),
      CrdResponse(200, "OK", Crd(TRUE, TRUE, "bitnami.com",
          <<Version("v1alpha1", FALSE, FALSE), Version("v1beta1", TRUE, FALSE)>>)),
      CrdResponse(200, "OK", Crd(TRUE, TRUE, "bitnami.com",
          <<Version("v1beta1", TRUE, FALSE), Version("v1alpha1", TRUE, FALSE)>>)),
      CrdResponse(200, "OK", Crd(TRUE, TRUE, "bitnami.com",
          <<Version("v1alpha1", FALSE, FALSE)>>)),
      CrdResponse(200, "OK", Crd(TRUE, TRUE, "bitnami.com", <<>>)),
      CrdResponse(200, "OK", Crd(TRUE, FALSE, "", <<>>)),
      CrdResponse(200, "OK", Crd(FALSE, FALSE, "", <<>>)),
      CrdResponse(404, "Not Found", Crd(FALSE, FALSE, "", <<>>)),
      CrdResponse(403, "Forbidden", Crd(FALSE, FALSE, "", <<>>)),
      CrdRejection("TypeError", "Failed to fetch") }

\* The answers drawn when detections overlap: two definitions that resolve to
\* different versions, one that resolves to none, and the three failures.
RaceOutcomes ==
    { e \in CrdOutcomes :
        \/ e.type = "error"
        \/ e.status # 200
        \/ /\ e.body.parses /\ e.body.hasSpec /\ Len(e.body.versions) > 0
           /\ \/ \E i \in 1..Len(e.body.versions) : e.body.versions[i].storage
              \/ \A i \in 1..Len(e.body.versions) : ~e.body.versions[i].served }

\* Faulty variant: the last match instead of the first.
FindLast(versions, flag) ==
    LET hits == {i \in 1..Len(versions) : versions[i][flag] = TRUE}
    IN  IF hits = {} THEN 0
        ELSE CHOOSE i \in hits : \A j \in hits : i >= j

\* versions.find(v => v[flag] === true): the index of the first match, or 0.
Find(versions, flag) ==
    LET hits == {i \in 1..Len(versions) : versions[i][flag] = TRUE}
    IN  IF hits = {} THEN 0
        ELSE CHOOSE i \in hits : \A j \in hits : i <= j

\* Faulty variant: every non-2xx status gets the generic message.
CrdNotOkGeneric(e) ==
    Throw("Error", "Failed to fetch CRD: " \o ToString(e.status) \o " " \o e.statusText)

\* The error thrown for a response that is not ok.
CrdNotOk(e) ==
    IF e.status = 404
    THEN Throw("Error", "SealedSecrets CRD not found. Please install Sealed Secrets on the cluster.")
    ELSE Throw("Error", "Failed to fetch CRD: " \o ToString(e.status)
                   \o " " \o e.statusText)

\* The closure once the response is ok and its body parsed: the version it
\* selects, and the cache after.
DetectSelect(crd, cached) ==
    LET versions == IF crd.hasSpec THEN crd.versions ELSE <<>>
        storage == Find(versions, "storage")
        served == Find(versions, "served")
    IN  IF storage # 0
        THEN [completion |-> Return(crd.group \o "/" \o versions[storage].name),
              cache |-> crd.group \o "/" \o versions[storage].name]
        ELSE IF served # 0
        THEN [completion |-> Return(crd.group \o "/" \o versions[served].name),
              cache |-> crd.group \o "/" \o versions[served].name]
        ELSE [completion |-> Return(DEFAULT_VERSION), cache |-> cached]

\* Faulty variant: a failed detection drops the cached version.
DetectClosureDroppingCache(e, cached) ==
    IF e.type = "error"
    THEN [completion |-> Throw(e.name, e.message), cache |-> Null]
    ELSE IF ~ResponseOk(e)
    THEN [completion |-> CrdNotOk(e), cache |-> Null]
    ELSE IF ~e.body.parses
    THEN [completion |-> Throw("SyntaxError", "Unexpected token in JSON"),
          cache |-> Null]
    ELSE DetectSelect(e.body, cached)

\* The closure handed to tryCatchAsync: how it completes, and the cache after.
DetectClosure(e, cached) ==
    IF e.type = "error"
    THEN [completion |-> Throw(e.name, e.message), cache |-> cached]
    ELSE IF ~ResponseOk(e)
    THEN [completion |-> CrdNotOk(e), cache |-> cached]
    ELSE IF ~e.body.parses
    THEN [completion |-> Throw("SyntaxError", "Unexpected token in JSON"),
          cache |-> cached]
    ELSE DetectSelect(e.body, cached)

DetectResult(completion) ==
    LET result == tryCatchAsync(completion)
    IN  IF result.ok = FALSE THEN Err(result.error.message) ELSE Ok(result.value)

getDetectedVersion == detectedVersion

\* apiFactoryWithNamespace(group, version, resource): the accessor it builds.
apiFactoryWithNamespace(group, version, resource) ==
    [group |-> group, version |-> version, resource |-> resource]

apiEndpoint == apiFactoryWithNamespace("bitnami.com", "v1alpha1", "sealedsecrets")

\* The slash-free pieces a group/version string of the model is made of.
VersionAtoms ==
    {"bitnami.com", "v1alpha1", ""}
        \cup {e.body.group : e \in CrdOutcomes}
        \cup UNION {{e.body.versions[i].name : i \in 1..Len(e.body.versions)} :
                        e \in CrdOutcomes}

RECURSIVE Join(_, _)
Join(parts, separator) ==
    IF Len(parts) = 0 THEN ""
    ELSE IF Len(parts) = 1 THEN parts[1]
    ELSE parts[1] \o separator \o Join(Tail(parts), separator)

\* value.split('/'): the slash-free pieces whose join with '/' is the value.
Split(value) ==
    CHOOSE parts \in UNION {[1..n -> VersionAtoms] : n \in 1..3} :
        Join(parts, "/") = value

\* Faulty variant: a failed detection is thrown on to the caller.
getApiEndpointReturnThrowing(versionResult) ==
    IF versionResult.ok
    THEN LET parts == Split(versionResult.value)
         IN  Return(apiFactoryWithNamespace(parts[1],
                 IF Len(parts) >= 2 THEN parts[2] ELSE Undefined, "sealedsecrets"))
    ELSE Throw("Error", versionResult.error)

\* What getApiEndpoint() does once detectApiVersion() has returned versionResult.
getApiEndpointReturn(versionResult) ==
    IF versionResult.ok
    THEN LET parts == Split(versionResult.value)
         IN  Return(apiFactoryWithNamespace(parts[1],
                 IF Len(parts) >= 2 THEN parts[2] ELSE Undefined, "sealedsecrets"))
    ELSE Return(apiEndpoint)

\* The continuation of the caller that awaited detectApiVersion().
DetectCaller(caller, versionResult) ==
    IF caller = "getApiEndpoint" THEN getApiEndpointReturn(versionResult)
    ELSE NoResult

\* A call of detectApiVersion(), made directly or by getApiEndpoint(); its
\* record goes into the first slot that holds no call in flight (a returned
\* call's slot is used again).
DetectStart(d, caller) ==
    /\ detect[d].pc \in {"idle", "done"}
    /\ \A other \in 1..(d - 1) : detect[other].pc = "fetching"
    /\ IF detectedVersion # Null
       THEN /\ detect' = [detect EXCEPT ![d] =
                    [IdleDetect EXCEPT !.pc = "done", !.caller = caller,
                                       !.endpoint = DetectCaller(caller,
                                                        Ok(detectedVersion)),
                                       !.cachedAtCall = detectedVersion,
                                       !.afterOk = (lastDetect = "ok"),
                                       !.firstAfterClear = cleared,
                                       !.cacheAfter = getDetectedVersion,
                                       !.result = Ok(detectedVersion)]]
            /\ lastDetect' = "ok"
       ELSE /\ detect' = [detect EXCEPT ![d] =
                    [IdleDetect EXCEPT !.pc = "fetching", !.caller = caller,
                                       !.afterOk = (lastDetect = "ok"),
                                       !.firstAfterClear = cleared,
                                       !.requests = <<Request("GET", CrdURL, "")>>]]
            /\ UNCHANGED lastDetect
    /\ cleared' = "no"
    /\ UNCHANGED <<retry, clientVars, libVars, detectedVersion>>

detectApiVersion(d) == DetectStart(d, "detectApiVersion")

getApiEndpoint(d) == DetectStart(d, "getApiEndpoint")

\* The CRD query of slot d settles and the call returns.
DetectRequestSettles(d, e) ==
    /\ detect[d].pc = "fetching"
    /\ LET done == DetectClosure(e, detectedVersion)
           result == DetectResult(done.completion)
       IN  /\ detectedVersion' = done.cache
           /\ detect' = [detect EXCEPT ![d] =
                    [@ EXCEPT !.pc = "done", !.outcome = e,
                              !.cacheAfter = getDetectedVersion',
                              !.endpoint = DetectCaller(detect[d].caller, result),
                              !.result = result]]
           /\ lastDetect' = IF result.ok THEN "ok" ELSE "err"
    /\ UNCHANGED <<retry, clientVars, libVars, cleared>>

\* cleared records whether a detection was in flight when the cache was cleared.
clearVersionCache ==
    /\ detectedVersion' = Null
    /\ lastDetect' = "none"
    /\ cleared' = IF \E d \in Detects : detect[d].pc = "fetching"
                  THEN "racing" ELSE "quiet"
    /\ UNCHANGED <<retry, clientVars, libVars, detect>>

CrdInit ==
    /\ retry = [c \in Calls |-> IdleCall]
    /\ ClientIdle
    /\ CrdIdle
    /\ LibIdle

CrdNext ==
    \/ \E d \in Detects : detectApiVersion(d)
    \/ \E d \in Detects, e \in RaceOutcomes : DetectRequestSettles(d, e)
    \/ clearVersionCache

SpecCRD == CrdInit /\ [][CrdNext]_vars

NoDetectInFlight == \A d \in Detects : detect[d].pc # "fetching"

\* The three operations that report a failed request as Err, side by side: one
\* certificate fetch, rotate, and detections awaited one after another.
CoreNext ==
    \/ \E config \in Configs : fetchPublicCertificate(1, config)
    \/ \E e \in CertOutcomes : CertificateRequestSettles(1, e, 0)
    \/ BackoffElapsed(1)
    \/ \E config \in Configs, yaml \in Manifests : rotateSealedSecret(config, yaml)
    \/ \E e \in PostOutcomes : RotateRequestSettles(e)
    \/ \E d \in Detects : NoDetectInFlight /\ detectApiVersion(d)
    \/ \E d \in Detects, e \in CrdOutcomes : DetectRequestSettles(d, e)

SpecCore == CrdInit /\ [][CoreNext]_vars

\* Detections awaited one after another, over every answer of the CRD query.
DetectNext ==
    \/ \E d \in Detects : NoDetectInFlight /\ detectApiVersion(d)
    \/ \E d \in Detects : NoDetectInFlight /\ getApiEndpoint(d)
    \/ \E d \in Detects, e \in CrdOutcomes : DetectRequestSettles(d, e)
    \/ clearVersionCache

SpecDetect == CrdInit /\ [][DetectNext]_vars

----------------------------------------------------------------------------
(* Claims about the API-version resolver *)

\* C9: whenever detectApiVersion() is called while the cache is Resolved(v),
\* it returns Ok(v) and issues no network request; in particular, a call that
\* immediately follows a detectApiVersion() call that returned Ok makes no
\* CRD metadata query.
CacheHitNoQuery ==
    \A d \in Detects :
        /\ (detect[d].pc # "idle" /\ detect[d].cachedAtCall # Null) =>
                /\ detect[d].pc = "done"
                /\ detect[d].result = Ok(detect[d].cachedAtCall)
                /\ detect[d].requests = <<>>
        /\ (detect[d].pc # "idle" /\ detect[d].afterOk) =>
                detect[d].requests = <<>>

\* C10: whenever detectApiVersion() returns Ok(v), whether v is the storage
\* version, the first served version or the hardcoded default, the cache
\* afterwards holds v.
SuccessfulDetectionCached ==
    \A d \in Detects :
        (detect[d].pc = "done" /\ detect[d].result.ok) =>
            detect[d].cacheAfter = detect[d].result.value

\* C11: after clearVersionCache() returns, the first detectApiVersion() call
\* started afterwards issues a CRD metadata query, in every interleaving,
\* including when an earlier detectApiVersion() call was still in flight at
\* the moment the cache was cleared.
ClearForcesRedetection ==
    \A d \in Detects :
        (detect[d].pc # "idle" /\ detect[d].firstAfterClear # "no") =>
            /\ Len(detect[d].requests) = 1
            /\ detect[d].requests[1] = Request("GET", CrdURL, "")

\* C12: the API-version cache is a two-state machine: it starts absent; it
\* changes from absent to a value only when a detection succeeds; it changes
\* from a value to absent only through clearVersionCache(); and it never
\* changes from one value to a different value without an intervening
\* clearVersionCache(), in any interleaving of detect and clear calls.
CacheTwoStateMachine ==
    /\ detectedVersion = Null
    /\ [][detectedVersion' # detectedVersion =>
            \/ /\ detectedVersion = Null
               /\ \E d \in Detects :
                      /\ detect[d].pc = "fetching"
                      /\ detect'[d].pc = "done"
                      /\ detect'[d].result = Ok(detectedVersion')
            \/ /\ detectedVersion # Null
               /\ detectedVersion' = Null
               /\ detect' = detect
               /\ cleared' # "no"]_vars

\* C13: for every CRD definition returned with 2xx, detectApiVersion()
\* returns group/name of the first version with storage = true; if no version
\* has storage = true, group/name of the first version with served = true; if
\* neither exists (including an empty or missing versions list), the default
\* 'bitnami.com/v1alpha1'.
VersionSelectionPriority ==
    \A d \in Detects :
        LET e == detect[d].outcome
            crd == e.body
            versions == IF crd.hasSpec THEN crd.versions ELSE <<>>
            IsFirst(i, flag) ==
                /\ versions[i][flag] = TRUE
                /\ \A j \in 1..(i - 1) : versions[j][flag] # TRUE
            None(flag) == \A i \in 1..Len(versions) : versions[i][flag] # TRUE
        IN  (/\ detect[d].pc = "done"
             /\ e.type = "response" /\ e.status \in 200..299
             /\ crd.parses) =>
                /\ \A i \in 1..Len(versions) :
                        IsFirst(i, "storage") =>
                            detect[d].result = Ok(crd.group \o "/" \o versions[i].name)
                /\ None("storage") =>
                        \A i \in 1..Len(versions) :
                            IsFirst(i, "served") =>
                                detect[d].result = Ok(crd.group \o "/" \o versions[i].name)
                /\ (None("storage") /\ None("served")) =>
                        detect[d].result = Ok("bitnami.com/v1alpha1")

\* A definition with two served versions and no storage version resolved to
\* the first of them.
VersionSelectionPriorityWitness ==
    \E d \in Detects :
        /\ detect[d].pc = "done"
        /\ detect[d].outcome.type = "response"
        /\ detect[d].outcome.status = 200
        /\ detect[d].outcome.body.versions =
                <<Version("v1beta1", TRUE, FALSE), Version("v1alpha1", TRUE, FALSE)>>
        /\ detect[d].result = Ok("bitnami.com/v1beta1")

\* C14: a failed detection leaves the cache untouched: when the CRD metadata
\* query returns 404, another non-2xx status, or fails in transport,
\* detectApiVersion() returns Err and the step in which it returns leaves the
\* cached value exactly as it was (absent stays absent, so the next call
\* queries again).
FailedDetectionLeavesCache ==
    [][\A d \in Detects :
          (/\ detect[d].pc = "fetching"
           /\ detect'[d].pc = "done"
           /\ \/ detect'[d].outcome.type = "error"
              \/ /\ detect'[d].outcome.type = "response"
                 /\ detect'[d].outcome.status \notin 200..299) =>
              /\ detect'[d].result.ok = FALSE
              /\ detectedVersion' = detectedVersion
              /\ detect[d].cachedAtCall = Null]_vars

\* A detection that got 404 and one that failed in transport have returned
\* Err with the cache still absent.
FailedDetectionLeavesCacheWitness ==
    /\ detectedVersion = Null
    /\ \E d \in Detects :
          /\ detect[d].pc = "done"
          /\ detect[d].outcome.status = 404
          /\ detect[d].result.ok = FALSE
          /\ detect[d].cachedAtCall = Null
          /\ detect[d].cacheAfter = Null
    /\ \E d \in Detects :
          /\ detect[d].pc = "done"
          /\ detect[d].outcome.type = "error"
          /\ detect[d].result.ok = FALSE
          /\ detect[d].cacheAfter = Null

NotFoundMessage ==
    "SealedSecrets CRD not found. Please install Sealed Secrets on the cluster."

\* C15: detectApiVersion() returns the 'CRD not found / please install'
\* error exactly when the response status is 404, and a different error for
\* every other failure: the generic one carrying status and status text for
\* another non-2xx status, the transport error's message for a failed request.
NotFoundIsDistinct ==
    \A d \in Detects :
        detect[d].pc = "done" =>
            LET e == detect[d].outcome
            IN  /\ (detect[d].result = Err(NotFoundMessage)) <=>
                        (e.type = "response" /\ e.status = 404)
                /\ (e.type = "response" /\ e.status \notin 200..299
                        /\ e.status # 404) =>
                        detect[d].result = Err("Failed to fetch CRD: "
                            \o ToString(e.status) \o " " \o e.statusText)
                /\ e.type = "error" => detect[d].result = Err(e.message)

\* A 404 answer returned as the 'not found' error.
NotFoundIsDistinctWitness ==
    \E d \in Detects :
        /\ detect[d].pc = "done"
        /\ detect[d].outcome.type = "response"
        /\ detect[d].outcome.status = 404
        /\ Len(detect[d].requests) = 1
        /\ detect[d].result = Err(NotFoundMessage)

\* C16: getApiEndpoint() never fails: whenever detectApiVersion() returns Err
\* it returns the default bitnami.com/v1alpha1 accessor, whenever it returns
\* Ok(group/version) it returns an accessor for exactly that group and
\* version, and in no case does it throw or reject.
EndpointNeverFails ==
    \A d \in Detects :
        (detect[d].pc = "done" /\ detect[d].caller = "getApiEndpoint") =>
            LET accessor == detect[d].endpoint.value
            IN  /\ detect[d].endpoint.thrown = FALSE
                /\ accessor.resource = "sealedsecrets"
                /\ detect[d].result.ok = FALSE =>
                        /\ accessor.group = "bitnami.com"
                        /\ accessor.version = "v1alpha1"
                /\ detect[d].result.ok = TRUE =>
                        /\ accessor.group = "bitnami.com"
                        /\ accessor.version \in {"v1alpha1", "v1beta1", "v1"}
                        /\ accessor.group \o "/" \o accessor.version
                                = detect[d].result.value

\* getApiEndpoint() returned the default accessor after a 403 on the CRD query.
EndpointNeverFailsWitness ==
    \E d \in Detects :
        /\ detect[d].pc = "done"
        /\ detect[d].caller = "getApiEndpoint"
        /\ detect[d].outcome.status = 403
        /\ detect[d].result.ok = FALSE
        /\ detect[d].endpoint.thrown = FALSE
        /\ detect[d].endpoint.value =
                [group |-> "bitnami.com", version |-> "v1alpha1",
                 resource |-> "sealedsecrets"]

----------------------------------------------------------------------------
(* Claims about the Result boundary *)

IsResult(r) == "ok" \in DOMAIN r /\ r.ok \in BOOLEAN

\* C17: no core operation throws across its boundary: for every input,
\* including a config value that getPluginConfig() can return from stored
\* JSON such as null or an object with missing fields, and every network
\* behaviour, fetchPublicCertificate, verifySealedSecret, rotateSealedSecret,
\* checkControllerHealth and detectApiVersion each complete with a Result
\* value (ok or error) and never throw or reject.
NoOperationThrows ==
    /\ \A c \in Calls : retry[c].pc = "done" => IsResult(retry[c].result)
    /\ \A op \in PostOps : post[op].pc = "done" => IsResult(post[op].result)
    /\ health.pc = "done" => IsResult(health.result)
    /\ \A d \in Detects : detect[d].pc = "done" => IsResult(detect[d].result)

IsSuccess(e) == e.type = "response" /\ e.status \in 200..299

IsFailure(e) ==
    \/ e.type = "error"
    \/ e.type = "response" /\ e.status \notin 200..299

\* C18: no failure is swallowed into a success: fetchPublicCertificate,
\* rotateSealedSecret and detectApiVersion return Ok only if, during that
\* call, a request received a 2xx response (or, for detectApiVersion, the
\* cache was already Resolved); a non-2xx response or transport failure on
\* the last request made always yields Err.
NoFailureSwallowed ==
    /\ \A c \in Calls :
          (retry[c].pc = "done" /\ IsCertCall(retry[c])) =>
              LET log == retry[c].log
              IN  /\ Len(log) = Len(retry[c].requests)
                  /\ retry[c].result.ok => \E i \in 1..Len(log) : IsSuccess(log[i])
                  /\ IsFailure(log[Len(log)]) => retry[c].result.ok = FALSE
    /\ post["rotateSealedSecret"].pc = "done" =>
          /\ post["rotateSealedSecret"].result.ok =>
                IsSuccess(post["rotateSealedSecret"].outcome)
          /\ IsFailure(post["rotateSealedSecret"].outcome) =>
                post["rotateSealedSecret"].result.ok = FALSE
    /\ \A d \in Detects :
          detect[d].pc = "done" =>
              /\ detect[d].result.ok =>
                    \/ IsSuccess(detect[d].outcome)
                    \/ detect[d].cachedAtCall # Null /\ detect[d].requests = <<>>
              /\ IsFailure(detect[d].outcome) => detect[d].result.ok = FALSE

\* All three returned Err after a failure on their last request: the third
\* certificate GET failed in transport, rotate got 500, the CRD query got 403.
NoFailureSwallowedWitness ==
    /\ retry[1].pc = "done"
    /\ Len(retry[1].log) = 3
    /\ retry[1].log[3].type = "error"
    /\ retry[1].result.ok = FALSE
    /\ post["rotateSealedSecret"].pc = "done"
    /\ post["rotateSealedSecret"].outcome.status = 500
    /\ post["rotateSealedSecret"].result.ok = FALSE
    /\ \E d \in Detects :
          /\ detect[d].pc = "done"
          /\ detect[d].outcome.status = 403
          /\ detect[d].result.ok = FALSE

\* C19: verifySealedSecret's result is determined purely by the response
\* status class: it returns Ok(true) exactly when the single POST to
\* /v1/verify gets a 2xx response, Ok(false) exactly when it gets a non-2xx
\* response, and Err('Verification failed: ...') exactly when the request
\* fails in transport.
VerifyByStatusClass ==
    post["verifySealedSecret"].pc = "done" =>
        LET e == post["verifySealedSecret"].outcome
            result == post["verifySealedSecret"].result
        IN  /\ OneRequest(post["verifySealedSecret"].requests, "POST", "/v1/verify")
            /\ post["verifySealedSecret"].requests[1].body \in Manifests
            /\ (result = Ok(TRUE)) <=> IsSuccess(e)
            /\ (result = Ok(FALSE)) <=>
                    (e.type = "response" /\ e.status \notin 200..299)
            /\ (result.ok = FALSE) <=> (e.type = "error")
            /\ e.type = "error" => result = Err("Verification failed: " \o e.message)

\* A 409 answer to the POST returned as Ok(false).
VerifyByStatusClassWitness ==
    /\ post["verifySealedSecret"].pc = "done"
    /\ post["verifySealedSecret"].outcome.status = 409
    /\ Len(post["verifySealedSecret"].requests) = 1
    /\ post["verifySealedSecret"].result = Ok(FALSE)

\* C20: rotateSealedSecret returns Ok(body) with the response body text
\* exactly when the single POST to /v1/rotate gets a 2xx response; on a
\* non-2xx response it returns Err whose message carries the HTTP status code
\* and status text; on transport failure it returns Err.
RotateByStatus ==
    post["rotateSealedSecret"].pc = "done" =>
        LET e == post["rotateSealedSecret"].outcome
            result == post["rotateSealedSecret"].result
        IN  /\ OneRequest(post["rotateSealedSecret"].requests, "POST", "/v1/rotate")
            /\ post["rotateSealedSecret"].requests[1].body \in Manifests
            /\ result.ok <=> IsSuccess(e)
            /\ IsSuccess(e) => result = Ok(e.body)
            /\ (e.type = "response" /\ e.status \notin 200..299) =>
                    result = Err("Unable to rotate SealedSecret: Rotation failed: "
                                    \o ToString(e.status) \o " " \o e.statusText)
            /\ e.type = "error" =>
                    result = Err("Unable to rotate SealedSecret: " \o e.message)

\* A 409 answer to the POST returned as Err carrying '409 Conflict'.
RotateByStatusWitness ==
    /\ post["rotateSealedSecret"].pc = "done"
    /\ post["rotateSealedSecret"].outcome.status = 409
    /\ Len(post["rotateSealedSecret"].requests) = 1
    /\ post["rotateSealedSecret"].result =
            Err("Unable to rotate SealedSecret: Rotation failed: 409 Conflict")

----------------------------------------------------------------------------
(* Claims about the certificate, its fetch and the configuration *)

\* Text bounded by the PEM certificate markers around a base64 payload.
WellFormedPEM(text) ==
    \E payload \in {"MIIB", "MIIC", "MIID"} :
        text = "-----BEGIN CERTIFICATE-----" \o payload \o "-----END CERTIFICATE-----"

\* C21: every value that fetchPublicCertificate returns in the Ok variant is
\* well-formed PEM text bounded by '-----BEGIN CERTIFICATE-----' and
\* '-----END CERTIFICATE-----', for every 2xx response body the controller
\* endpoint (or a proxy in front of it) may return.
CertificateIsPEM ==
    \A c \in Calls :
        (retry[c].pc = "done" /\ IsCertCall(retry[c]) /\ retry[c].result.ok) =>
            WellFormedPEM(retry[c].result.value)

\* C22: fetchPublicCertificate always eventually returns provided every
\* individual GET eventually settles: it is bounded by the attempt cap (at
\* most 3 requests) and cannot retry indefinitely against an unreachable
\* controller.
FetchEventuallyReturns ==
    /\ [](\A c \in Calls :
            IsCertCall(retry[c]) =>
                /\ Len(retry[c].requests) <= 3
                /\ retry[c].attempt <= 3)
    /\ \A c \in Calls :
          (IsCertCall(retry[c]) /\ retry[c].pc \in {"running", "sleeping"})
              ~> (retry[c].pc = "done")

\* Against a controller that never answers (three transport failures), the
\* fetch returned Err after its third GET.
FetchEventuallyReturnsWitness ==
    \E c \in Calls :
        /\ retry[c].pc = "done"
        /\ IsCertCall(retry[c])
        /\ Len(retry[c].requests) = 3
        /\ \A i \in 1..3 : retry[c].log[i] = NetworkFailure
        /\ retry[c].result = Err("Unable to fetch controller certificate: Failed to fetch")

\* C23: concurrent retry invocations are independent: when two or more
\* retry-driven calls interleave at their suspension points, each keeps its
\* own attempt count and delay, so each makes at most its own maxAttempts
\* attempts, and the outcome of one never changes the attempt count or result
\* of another.
RetryCallsIndependent ==
    /\ [](\A c \in ConcurrentCalls :
            LET call == retry[c]
            IN  /\ call.attempt <= AttemptCap(call)
                /\ call.pc \in {"sleeping", "done"} => call.attempt = Len(call.log)
                /\ call.pc = "running" => call.attempt = Len(call.log) + 1
                /\ call.pc = "done" => call.result = AttemptResult(call, Len(call.log))
                /\ call.pc = "sleeping" =>
                        call.base = IF IsCertCall(call)
                                    THEN (IF call.attempt = 1 THEN 1000 ELSE 2000)
                                    ELSE 4000)
    /\ [][\A c \in ConcurrentCalls, other \in ConcurrentCalls :
            (c # other /\ retry'[c] # retry[c]) => retry'[other] = retry[other]]_vars

\* A certificate fetch gave up after its third attempt while a call capped at
\* two attempts, started before that, is still in its first backoff sleep.
RetryCallsIndependentWitness ==
    \E c \in ConcurrentCalls, other \in ConcurrentCalls :
        /\ c # other
        /\ retry[c].pc = "done"
        /\ IsCertCall(retry[c])
        /\ retry[c].attempt = 3
        /\ retry[c].result.ok = FALSE
        /\ retry[other].pc = "sleeping"
        /\ retry[other].op = "operation"
        /\ retry[other].attempt = 1
        /\ retry[other].base = 4000

----------------------------------------------------------------------------
(* The configuration functions, called on what localStorage holds *)

ProxyPaths == {"/v1/cert.pem", "/v1/verify", "/v1/rotate", "/healthz"}

\* Faulty variant: the record is stored without JSON.stringify.
savePluginConfigUnserialized(config) ==
    /\ localStorage' = "[object Object]"
    /\ applied' = [NoApplication EXCEPT !.op = "savePluginConfig",
                                        !.config = config,
                                        !.stored = "[object Object]"]
    /\ UNCHANGED <<retry, clientVars, crdVars, uiVars, engineVars, flowVars>>

savePluginConfig(config) ==
    /\ localStorage' = JSONStringify(config)
    /\ applied' = [NoApplication EXCEPT !.op = "savePluginConfig",
                                        !.config = config,
                                        !.stored = JSONStringify(config)]
    /\ UNCHANGED <<retry, clientVars, crdVars, uiVars, engineVars, flowVars>>

\* Anything else that writes the entry: another tab, the developer tools.
StorageWritten(text) ==
    /\ localStorage' = text
    /\ UNCHANGED <<retry, clientVars, crdVars, uiVars, applied, engineVars, flowVars>>

GetPluginConfig ==
    /\ applied' =
            LET call == getPluginConfigCall(localStorage)
            IN  [NoApplication EXCEPT !.op = "getPluginConfig",
                                      !.stored = localStorage,
                                      !.thrown = call.thrown,
                                      !.returned = IF call.thrown THEN NullConfig
                                                   ELSE call.value]
    /\ UNCHANGED <<retry, clientVars, crdVars, uiVars, localStorage, engineVars, flowVars>>

GetControllerProxyURL(config, path) ==
    /\ applied' =
            LET call == getControllerProxyURL(config, path)
            IN  [NoApplication EXCEPT !.op = "getControllerProxyURL",
                                      !.config = config,
                                      !.path = path,
                                      !.thrown = call.thrown,
                                      !.url = IF call.thrown THEN "" ELSE call.value]
    /\ UNCHANGED <<retry, clientVars, crdVars, uiVars, localStorage, engineVars, flowVars>>

ConfigNext ==
    \/ \E config \in Configs : savePluginConfig(config)
    \/ \E text \in StoredTexts : StorageWritten(text)
    \/ GetPluginConfig
    \/ \E config \in Configs, path \in ProxyPaths : GetControllerProxyURL(config, path)

SpecConfig == RetryInit /\ [][ConfigNext]_vars

----------------------------------------------------------------------------
(* Claims about the configuration functions *)

\* C24: getPluginConfig falls back to the default: when the entry under
\* 'sealed-secrets-plugin-config' is absent, empty, or holds text that fails
\* to parse as JSON, getPluginConfig() returns {controllerName:
\* 'sealed-secrets-controller', controllerNamespace: 'kube-system',
\* controllerPort: 8080} and does not throw.
ConfigFallsBackToDefault ==
    (/\ applied.op = "getPluginConfig"
     /\ \/ applied.stored \in {NoItem, ""}
        \/ JSONParse(applied.stored).thrown)
        => /\ ~applied.thrown
           /\ applied.returned = [controllerName |-> "sealed-secrets-controller",
                                  controllerNamespace |-> "kube-system",
                                  controllerPort |-> 8080]

\* getPluginConfig() ran on an entry that is no JSON; a configuration has been
\* stored since.
ConfigFallsBackToDefaultWitness ==
    /\ applied.op = "getPluginConfig"
    /\ applied.stored = "{controllerName"
    /\ localStorage = JSONStringify([controllerName |-> "sealer",
                                     controllerNamespace |-> "ops",
                                     controllerPort |-> 9090])

\* C25: getControllerProxyURL(config, path) is deterministic and equals
\* '/api/v1/namespaces/' + controllerNamespace + '/services/http:' +
\* controllerName + ':' + controllerPort + '/proxy' + path for every config
\* and path, and performs no I/O: the call leaves every request log, the
\* stored configuration and the version cache as they were.
ProxyURLIsTheFormula ==
    /\ [](applied.op = "getControllerProxyURL" =>
            /\ ~applied.thrown
            /\ applied.url = "/api/v1/namespaces/" \o applied.config.controllerNamespace
                    \o "/services/http:" \o applied.config.controllerName
                    \o ":" \o ToString(applied.config.controllerPort)
                    \o "/proxy" \o applied.path)
    /\ [][(applied'.op = "getControllerProxyURL" /\ applied' # applied) =>
            UNCHANGED <<retry, clientVars, crdVars, uiVars, localStorage, flowVars>>]_vars

\* The URL of the rotate endpoint was built for a controller on port 9090.
ProxyURLIsTheFormulaWitness ==
    /\ applied.op = "getControllerProxyURL"
    /\ applied.url = "/api/v1/namespaces/ops/services/http:sealer:9090/proxy/v1/rotate"

----------------------------------------------------------------------------
(* Hybrid sealing engine, and the controller's unsealing as its oracle *)

MaxSeals == 2          \* values sealed in one run

Scopes == {"strict", "namespace-wide", "cluster-wide"}

Namespaces == {"dev", "prod"}

Names == {"db", "api"}

DataKeys == {"password", "token"}

Plaintexts == {"hunter2", "s3cret"}

\* The controller's key pairs; the certificate carries the public half.
KeyPairs == {"active", "retired"}

PublicKey(pair) == [pair |-> pair, half |-> "public"]

PrivateKey(pair) == [pair |-> pair, half |-> "private"]

\* Faulty variant: namespace-wide labels carry the name as well.
deriveLabelNamespaceWideAsStrict(scope, namespace, name) ==
    IF scope = "cluster-wide" THEN "" ELSE namespace \o "/" \o name

deriveLabel(scope, namespace, name) ==
    IF scope = "strict" THEN namespace \o "/" \o name
    ELSE IF scope = "namespace-wide" THEN namespace
    ELSE ""

\* Faulty variant: the session key of the first value is kept for the next ones.
GenerateSessionKeyOnce(drawn) == [random |-> 1]

\* The random source never hands out the same value twice: value number
\* drawn + 1 is the next one.
GenerateSessionKey(drawn) == [random |-> drawn + 1]

GenerateNonce(drawn) == [random |-> drawn + 1]

\* Authenticated symmetric cipher: the box opens under the key, the nonce and
\* the associated data it was closed with, and under nothing else.
AEADEncrypt(key, nonce, aad, plaintext) ==
    [key |-> key, nonce |-> nonce, aad |-> aad, plaintext |-> plaintext]

AEADDecrypt(key, nonce, aad, box) ==
    IF box.key = key /\ box.nonce = nonce /\ box.aad = aad
    THEN Return(box.plaintext)
    ELSE Throw("OperationError", "message authentication failed")

\* RSA-OAEP: the box opens under the private half of the pair and the label
\* it was closed with.
OAEPEncrypt(publicKey, label, message) ==
    [pair |-> publicKey.pair, label |-> label, message |-> message]

OAEPDecrypt(privateKey, label, box) ==
    IF box.pair = privateKey.pair /\ box.label = label
    THEN Return(box.message)
    ELSE Throw("OperationError", "decryption error")

\* Length prefix of the wrapped key, wrapped key, nonce, ciphertext with tag;
\* the whole in base64.
Base64Encode(bytes) == [base64 |-> bytes]

Base64Decode(text) == text.base64

Envelope(wrappedKey, nonce, body) ==
    Base64Encode([prefix |-> "length of wrappedKey", wrappedKey |-> wrappedKey,
                  nonce |-> nonce, body |-> body])

\* Faulty variant: the label is associated data only, not the OAEP label.
sealWithoutOAEPLabel(plaintext, publicKey, label, sessionKey, nonce) ==
    Envelope(OAEPEncrypt(publicKey, "", sessionKey), nonce,
             AEADEncrypt(sessionKey, nonce, label, plaintext))

seal(plaintext, publicKey, label, sessionKey, nonce) ==
    Envelope(OAEPEncrypt(publicKey, label, sessionKey), nonce,
             AEADEncrypt(sessionKey, nonce, label, plaintext))

unseal(ciphertext, privateKey, label) ==
    LET bytes == Base64Decode(ciphertext)
        key == OAEPDecrypt(privateKey, label, bytes.wrappedKey)
    IN  IF key.thrown THEN key
        ELSE AEADDecrypt(key.value, bytes.nonce, label, bytes.body)

LatestSealed == sealed[Len(sealed)]

\* One value of a SealedSecret is sealed; the values that follow are further
\* data keys of the same SealedSecret, under the same certificate.
SealValue(plaintext, pair, scope, namespace, name, dataKey) ==
    /\ Len(sealed) < MaxSeals
    /\ sealed # <<>> =>
            /\ pair = LatestSealed.pair
            /\ scope = LatestSealed.scope
            /\ namespace = LatestSealed.namespace
            /\ name = LatestSealed.name
    /\ LET label == deriveLabel(scope, namespace, name)
           sessionKey == GenerateSessionKey(rng)
           nonce == GenerateNonce(rng + 1)
       IN  sealed' = Append(sealed,
               [plaintext |-> plaintext, pair |-> pair, scope |-> scope,
                namespace |-> namespace, name |-> name, dataKey |-> dataKey,
                label |-> label, sessionKey |-> sessionKey, nonce |-> nonce,
                ciphertext |-> seal(plaintext, PublicKey(pair), label,
                                    sessionKey, nonce)])
    /\ rng' = rng + 2
    /\ unsealed' = NoUnseal
    /\ UNCHANGED <<retry, clientVars, crdVars, uiVars, configVars, flowVars>>

\* The controller is handed the latest ciphertext as data key dataKey of a
\* SealedSecret of the given scope, namespace and name.
UnsealValue(pair, scope, namespace, name, dataKey) ==
    /\ sealed # <<>>
    /\ LET label == deriveLabel(scope, namespace, name)
           opened == unseal(LatestSealed.ciphertext, PrivateKey(pair), label)
       IN  unsealed' =
               [tried |-> TRUE, pair |-> pair, scope |-> scope,
                namespace |-> namespace, name |-> name, dataKey |-> dataKey,
                label |-> label, thrown |-> opened.thrown,
                plaintext |-> IF opened.thrown THEN "" ELSE opened.value]
    /\ UNCHANGED <<retry, clientVars, crdVars, uiVars, configVars, flowVars, rng, sealed>>

SealNext ==
    \/ \E plaintext \in Plaintexts, pair \in KeyPairs, scope \in Scopes,
          namespace \in Namespaces, name \in Names, dataKey \in DataKeys :
           SealValue(plaintext, pair, scope, namespace, name, dataKey)
    \/ \E pair \in KeyPairs, scope \in Scopes, namespace \in Namespaces,
          name \in Names, dataKey \in DataKeys :
           UnsealValue(pair, scope, namespace, name, dataKey)

SpecSeal == RetryInit /\ [][SealNext]_vars

----------------------------------------------------------------------------
(* Claims about the sealing engine *)

\* The label the data model gives for the scope and identity of a record.
LabelOf(record) ==
    IF record.scope = "strict" THEN record.namespace \o "/" \o record.name
    ELSE IF record.scope = "namespace-wide" THEN record.namespace
    ELSE ""

\* C26: label derivation is pure and total: for every scope, namespace and
\* name, deriveLabel returns namespace + '/' + name for strict, namespace for
\* namespace-wide, and the empty label for cluster-wide; the same triple
\* always yields the same label.
LabelDerivation ==
    /\ \A i \in 1..Len(sealed) :
            /\ sealed[i].label = LabelOf(sealed[i])
            /\ sealed[i].label \in {"dev/db", "dev/api", "prod/db", "prod/api",
                                    "dev", "prod", ""}
    /\ unsealed.tried =>
            /\ unsealed.label = LabelOf(unsealed)
            /\ \A i \in 1..Len(sealed) :
                    (/\ sealed[i].scope = unsealed.scope
                     /\ sealed[i].namespace = unsealed.namespace
                     /\ sealed[i].name = unsealed.name)
                        => sealed[i].label = unsealed.label

\* A value was sealed namespace-wide in prod under the label "prod", and the
\* controller derived the strict label "prod/api" for it.
LabelDerivationWitness ==
    /\ sealed # <<>>
    /\ LatestSealed.scope = "namespace-wide"
    /\ LatestSealed.label = "prod"
    /\ unsealed.tried
    /\ unsealed.scope = "strict"
    /\ unsealed.label = "prod/api"

\* C27: seal/unseal round trip and label binding: for every plaintext P, key
\* pair and label L, unsealing seal(P, pubkey, L) with the matching private
\* key and the same label L returns exactly P, and unsealing it with any
\* label different from L fails: both the OAEP key unwrap and the AEAD check
\* are bound to the label.
RoundTripAndLabelBinding ==
    unsealed.tried =>
        LET bytes == Base64Decode(LatestSealed.ciphertext)
        IN  /\ (unsealed.pair = LatestSealed.pair /\ unsealed.label = LatestSealed.label)
                    => (~unsealed.thrown /\ unsealed.plaintext = LatestSealed.plaintext)
            /\ unsealed.label # LatestSealed.label =>
                    /\ unsealed.thrown
                    /\ OAEPDecrypt(PrivateKey(LatestSealed.pair), unsealed.label,
                                   bytes.wrappedKey).thrown
                    /\ AEADDecrypt(LatestSealed.sessionKey, LatestSealed.nonce,
                                   unsealed.label, bytes.body).thrown

\* With the matching private key, the controller failed to open under the
\* label "dev" a value that was sealed under "dev/db".
RoundTripAndLabelBindingWitness ==
    /\ unsealed.tried
    /\ unsealed.pair = LatestSealed.pair
    /\ LatestSealed.label = "dev/db"
    /\ unsealed.label = "dev"
    /\ unsealed.thrown

\* C28: fresh randomness per sealed value: across any sequence of seal
\* operations, no session key and no nonce is used for more than one sealed
\* value, even for several data keys of the same SealedSecret under the same
\* label; so sealing the same plaintext twice with the same public key and
\* label yields two different ciphertexts.
FreshRandomnessPerValue ==
    \A i \in 1..Len(sealed), j \in 1..Len(sealed) :
        i # j =>
            /\ sealed[i].sessionKey # sealed[j].sessionKey
            /\ sealed[i].nonce # sealed[j].nonce
            /\ Base64Decode(sealed[i].ciphertext).nonce
                    # Base64Decode(sealed[j].ciphertext).nonce
            /\ sealed[i].ciphertext # sealed[j].ciphertext

\* The same plaintext was sealed twice for one SealedSecret, under the same
\* public key and label.
FreshRandomnessPerValueWitness ==
    /\ Len(sealed) >= 2
    /\ sealed[1].plaintext = sealed[2].plaintext
    /\ sealed[1].pair = sealed[2].pair
    /\ sealed[1].label = sealed[2].label
    /\ sealed[1].dataKey # sealed[2].dataKey

\* C29: strict scope binds the data-key name as well: a value sealed under
\* strict scope can be unsealed only if the namespace, the secret name and
\* the key name all match those used when sealing; unsealing the same
\* ciphertext under a different key name in the same namespace/name fails.
StrictBindsDataKey ==
    (/\ unsealed.tried
     /\ LatestSealed.scope = "strict"
     /\ unsealed.scope = "strict"
     /\ ~unsealed.thrown)
        => /\ unsealed.namespace = LatestSealed.namespace
           /\ unsealed.name = LatestSealed.name
           /\ unsealed.dataKey = LatestSealed.dataKey

----------------------------------------------------------------------------
(* The seal-and-create flow: certificate, label, ciphertext, manifest, POST *)

\* The public key of a certificate, or the error of text that is none.
ParsePublicKey(pem) ==
    IF pem = PemText THEN Return(PublicKey("active"))
    ELSE Throw("Error", "Invalid PEM formatted message.")

\* The annotations the scope getter reads the scope back from.
ScopeAnnotations(scope) ==
    IF scope = "cluster-wide" THEN {"sealedsecrets.bitnami.com/cluster-wide"}
    ELSE IF scope = "namespace-wide" THEN {"sealedsecrets.bitnami.com/namespace-wide"}
    ELSE {}

\* Faulty variant: the manifest carries the value it was built from.
SealedSecretManifestWithData(scope, namespace, name, dataKey, ciphertext) ==
    [apiVersion |-> DEFAULT_VERSION,
     kind |-> "SealedSecret",
     metadata |-> [name |-> name, namespace |-> namespace,
                   annotations |-> ScopeAnnotations(scope)],
     spec |-> [encryptedData |-> (dataKey :> ciphertext),
               template |-> [stringData |-> (dataKey :> flow.plaintext)]]]

SealedSecretManifest(scope, namespace, name, dataKey, ciphertext) ==
    [apiVersion |-> DEFAULT_VERSION,
     kind |-> "SealedSecret",
     metadata |-> [name |-> name, namespace |-> namespace,
                   annotations |-> ScopeAnnotations(scope)],
     spec |-> [encryptedData |-> (dataKey :> ciphertext)]]

\* Where the accessor of a namespaced resource posts a new object.
PostURL(endpoint, namespace) ==
    "/apis/" \o endpoint.group \o "/" \o endpoint.version
        \o "/namespaces/" \o namespace \o "/" \o endpoint.resource

\* The dialog has the value, the scope and the identity of the new object.
FlowStart(plaintext, scope, namespace, name, dataKey) ==
    /\ flow.pc = "idle"
    /\ flow' = [pc |-> "collected", plaintext |-> plaintext, scope |-> scope,
                namespace |-> namespace, name |-> name, dataKey |-> dataKey]
    /\ UNCHANGED <<retry, clientVars, crdVars, uiVars, configVars, engineVars, sent>>

\* The certificate fetch returned: the value is sealed under the certificate's
\* key, or the flow ends with the error to display.
FlowSeal ==
    /\ flow.pc = "collected"
    /\ retry[1].pc = "done"
    /\ LET fetched == retry[1].result
           key == IF fetched.ok THEN ParsePublicKey(fetched.value)
                  ELSE Throw("Error", fetched.error)
           label == deriveLabel(flow.scope, flow.namespace, flow.name)
           sessionKey == GenerateSessionKey(rng)
           nonce == GenerateNonce(rng + 1)
       IN  IF key.thrown
           THEN /\ flow' = [flow EXCEPT !.pc = "failed"]
                /\ UNCHANGED <<rng, sealed, unsealed>>
           ELSE /\ flow' = [flow EXCEPT !.pc = "sealed"]
                /\ Len(sealed) < MaxSeals
                /\ sealed' = Append(sealed,
                       [plaintext |-> flow.plaintext, pair |-> key.value.pair,
                        scope |-> flow.scope, namespace |-> flow.namespace,
                        name |-> flow.name, dataKey |-> flow.dataKey,
                        label |-> label, sessionKey |-> sessionKey, nonce |-> nonce,
                        ciphertext |-> seal(flow.plaintext, key.value, label,
                                            sessionKey, nonce)])
                /\ rng' = rng + 2
                /\ unsealed' = NoUnseal
    /\ UNCHANGED <<retry, clientVars, crdVars, uiVars, configVars, sent>>

\* The manifest is assembled and posted through the Kubernetes API.
FlowSubmit ==
    /\ flow.pc = "sealed"
    /\ flow' = [flow EXCEPT !.pc = "submitted"]
    /\ sent' = Append(sent, Request("POST", PostURL(apiEndpoint, flow.namespace),
                   SealedSecretManifest(flow.scope, flow.namespace, flow.name,
                                        flow.dataKey, LatestSealed.ciphertext)))
    /\ UNCHANGED <<retry, clientVars, crdVars, uiVars, configVars, engineVars>>

FlowNext ==
    \/ \E plaintext \in Plaintexts, scope \in Scopes, namespace \in Namespaces,
          name \in Names, dataKey \in DataKeys :
           FlowStart(plaintext, scope, namespace, name, dataKey)
    \/ flow.pc = "collected" /\ fetchPublicCertificate(1, DefaultConfig)
    \/ \E e \in CertOutcomes : CertificateRequestSettles(1, e, 0)
    \/ BackoffElapsed(1)
    \/ FlowSeal
    \/ FlowSubmit

SpecFlow == RetryInit /\ [][FlowNext]_vars

\* A manifest with every ciphertext blanked out.
Redact(manifest) ==
    [manifest EXCEPT !.spec.encryptedData =
        [k \in DOMAIN manifest.spec.encryptedData |-> "<ciphertext>"]]

----------------------------------------------------------------------------
(* Further claims about the retry driver *)

\* C31: backoff schedule: the pre-jitter delay before attempt k+1 is
\* min(initialDelayMs * 2^(k-1), maxDelayMs) for k = 1..maxAttempts-1 (1000 ms
\* then 2000 ms for fetchPublicCertificate), the driver sleeps exactly once
\* between two consecutive attempts, and it never sleeps after the final
\* failed attempt or after a success.
BackoffSchedule ==
    /\ [](\A c \in Calls :
            LET call == retry[c]
                k == call.attempt
                doubled == call.options.initialDelayMs * 2^(k - 1)
            IN  /\ call.pc = "sleeping" =>
                        /\ k \in 1..(AttemptCap(call) - 1)
                        /\ call.sleeps = k
                        /\ call.base = IF doubled <= call.options.maxDelayMs
                                       THEN doubled ELSE call.options.maxDelayMs
                        /\ IsCertCall(call) =>
                                call.base = IF k = 1 THEN 1000 ELSE 2000
                        /\ ~AttemptSucceeded(call, k)
                /\ call.pc \in {"running", "done"} => call.sleeps = k - 1)
    /\ [][\A c \in Calls :
            /\ retry[c].pc = "done" => retry'[c] = retry[c]
            /\ retry'[c].sleeps # retry[c].sleeps =>
                    /\ retry[c].pc = "running"
                    /\ retry'[c].pc = "sleeping"
                    /\ retry'[c].sleeps = retry[c].sleeps + 1
                    /\ retry[c].attempt < AttemptCap(retry[c])]_vars

\* A call with initialDelayMs 4000 and maxDelayMs 10000 in its third sleep:
\* 16000 ms doubled, 10000 ms after the cap.
BackoffScheduleWitness ==
    \E c \in Calls :
        /\ retry[c].pc = "sleeping"
        /\ retry[c].op = "operation"
        /\ retry[c].options.initialDelayMs = 4000
        /\ retry[c].attempt = 3
        /\ retry[c].base = 10000

----------------------------------------------------------------------------
(* Further claims about the configuration functions *)

\* C32: configuration round trip: for every PluginConfig c, savePluginConfig(c)
\* followed by getPluginConfig() returns a record equal to c (nothing else
\* having written the entry in between), and getPluginConfig() itself never
\* changes the stored value.
ConfigRoundTrip ==
    [][(applied'.op = "getPluginConfig" /\ applied' # applied) =>
            /\ localStorage' = localStorage
            /\ (applied.op = "savePluginConfig" /\ localStorage = applied.stored) =>
                    /\ ~applied'.thrown
                    /\ applied'.returned = applied.config]_vars

\* getPluginConfig() returned the configuration of the controller on port
\* 9090 from the text savePluginConfig() had stored.
ConfigRoundTripWitness ==
    /\ applied.op = "getPluginConfig"
    /\ applied.stored = "{\"controllerName\":\"sealer\",\"controllerNamespace\":\"ops\",\"controllerPort\":9090}"
    /\ applied.returned = [controllerName |-> "sealer", controllerNamespace |-> "ops",
                           controllerPort |-> 9090]
    /\ localStorage = applied.stored

----------------------------------------------------------------------------
(* The scope getter of a SealedSecret object *)

ClusterWideAnnotation == "sealedsecrets.bitnami.com/cluster-wide"

NamespaceWideAnnotation == "sealedsecrets.bitnami.com/namespace-wide"

ManagedAnnotation == "sealedsecrets.bitnami.com/managed"

AnnotationValues == {"true", "false", "True", "1", ""}

\* The annotation maps an object can carry: any of the two scope annotations
\* with any value, with or without an annotation the getter does not read.
AnnotationMaps ==
    UNION { [keys -> AnnotationValues] :
                keys \in SUBSET {ClusterWideAnnotation, NamespaceWideAnnotation,
                                 ManagedAnnotation} }

\* Objects with an annotation map, and the object without one.
Metadatas ==
    { [name |-> "db", namespace |-> "dev"] }
        \cup { [name |-> "db", namespace |-> "dev", annotations |-> annotations] :
                    annotations \in AnnotationMaps }

\* Faulty variant: the namespace-wide annotation is looked at first.
SealedSecret_scopeNamespaceFirst(meta) ==
    LET annotations == IF "annotations" \in DOMAIN meta THEN meta.annotations
                       ELSE <<>>
        IsTrue(key) == key \in DOMAIN annotations /\ annotations[key] = "true"
    IN  IF IsTrue(NamespaceWideAnnotation) THEN "namespace-wide"
        ELSE IF IsTrue(ClusterWideAnnotation) THEN "cluster-wide"
        ELSE "strict"

\* get scope(): annotations || {}, then the two comparisons with 'true'.
SealedSecret_scope(meta) ==
    LET annotations == IF "annotations" \in DOMAIN meta THEN meta.annotations
                       ELSE <<>>
        IsTrue(key) == key \in DOMAIN annotations /\ annotations[key] = "true"
    IN  IF IsTrue(ClusterWideAnnotation) THEN "cluster-wide"
        ELSE IF IsTrue(NamespaceWideAnnotation) THEN "namespace-wide"
        ELSE "strict"

\* An object arrives from the cluster.
ObjectLoaded(meta) ==
    /\ metadata' = meta
    /\ scopeRead' = Unread
    /\ UNCHANGED <<retry, clientVars, crdVars, configVars, engineVars, flowVars,
                   component, probes>>

ReadScope ==
    /\ scopeRead' = SealedSecret_scope(metadata)
    /\ UNCHANGED <<retry, clientVars, crdVars, configVars, engineVars, flowVars,
                   metadata, component, probes>>

ScopeNext ==
    \/ \E meta \in Metadatas : ObjectLoaded(meta)
    \/ ReadScope

SpecScope == RetryInit /\ [][ScopeNext]_vars

\* The value of an annotation of the object at hand; Undefined when the
\* object has no annotations or not this one.
AnnotationOf(key) ==
    IF "annotations" \notin DOMAIN metadata THEN Undefined
    ELSE IF key \notin DOMAIN metadata.annotations THEN Undefined
    ELSE metadata.annotations[key]

\* C33: the scope read from a SealedSecret's annotations is total with fixed
\* precedence: 'cluster-wide' if the cluster-wide annotation equals 'true'
\* (even when the namespace-wide annotation is also 'true'), otherwise
\* 'namespace-wide' if the namespace-wide annotation equals 'true', otherwise
\* 'strict' (including when annotations are absent or hold any value other
\* than 'true').
ScopePrecedence ==
    scopeRead # Unread =>
        /\ scopeRead \in {"strict", "namespace-wide", "cluster-wide"}
        /\ AnnotationOf(ClusterWideAnnotation) = "true" => scopeRead = "cluster-wide"
        /\ (/\ AnnotationOf(ClusterWideAnnotation) # "true"
            /\ AnnotationOf(NamespaceWideAnnotation) = "true")
                => scopeRead = "namespace-wide"
        /\ (/\ AnnotationOf(ClusterWideAnnotation) # "true"
            /\ AnnotationOf(NamespaceWideAnnotation) # "true")
                => scopeRead = "strict"

\* The scope of an object that carries both annotations with 'true' was read.
ScopePrecedenceWitness ==
    /\ scopeRead = "cluster-wide"
    /\ AnnotationOf(ClusterWideAnnotation) = "true"
    /\ AnnotationOf(NamespaceWideAnnotation) = "true"

----------------------------------------------------------------------------
(* Further claims about the resolver, the health probe and the configuration *)

\* C34: at most one CRD metadata query is outstanding at a time: when a second
\* detectApiVersion() call starts while a first call is still in flight with
\* the cache unresolved, the second call does not issue its own network
\* query, so N overlapping calls on an unresolved cache cause exactly one
\* query.
SingleQueryOutstanding ==
    \A d \in Detects, other \in Detects :
        (/\ d # other
         /\ detect[d].pc = "fetching"
         /\ detect[other].pc = "fetching")
            => Len(detect[d].requests) + Len(detect[other].requests) = 1

\* C35: the health check's deadline timer is disarmed on every completion
\* path: once checkControllerHealth has returned, after a 2xx response, a
\* non-2xx response, or a transport failure before the deadline, no 5-second
\* timer from that call remains armed and no abort fires afterwards.
HealthTimerDisarmed ==
    /\ [](health.pc = "done" => health.timer # "armed")
    /\ [][health.pc = "done" => health'.aborted = health.aborted]_vars

\* C37: getPluginConfig() always returns a well-formed PluginConfig, a record
\* with a string controllerName, a string controllerNamespace and an integer
\* controllerPort, for every possible stored value, including stored text
\* that parses as JSON but is not a config record.
ConfigAlwaysWellFormed ==
    applied.op = "getPluginConfig" =>
        /\ ~applied.thrown
        /\ DOMAIN applied.returned
                = {"controllerName", "controllerNamespace", "controllerPort"}
        /\ applied.returned.controllerPort \in Int

\* Date.now() reads the system clock, which can be set back while a probe is
\* in flight; the 5 s of the timer are counted apart from it, so the reading
\* at which an armed timer fires moves back as well.
ClockSetBack ==
    /\ health.pc = "fetching"
    /\ now >= health.startTime
    /\ now' = now - TickMs
    /\ health' = [health EXCEPT !.deadline = IF health.timer = "armed"
                                             THEN @ - TickMs ELSE @]
    /\ UNCHANGED <<retry, post, crdVars, libVars>>

WallClockNext ==
    \/ ClientNext
    \/ ClockSetBack

SpecWallClock == ClientInit /\ [][WallClockNext]_vars

\* C36: every ControllerHealthStatus returned by checkControllerHealth is
\* internally consistent: healthy implies reachable; error is present exactly
\* when healthy is false; version is present only when healthy is true;
\* latencyMs is always present and non-negative.
HealthStatusConsistent ==
    (health.pc = "done" /\ health.result.ok) =>
        LET status == health.result.value
        IN  /\ status.healthy => status.reachable
            /\ ("error" \in DOMAIN status) <=> ~status.healthy
            /\ ("version" \in DOMAIN status /\ status.version # Undefined)
                    => status.healthy
            /\ "latencyMs" \in DOMAIN status
            /\ status.latencyMs >= 0

----------------------------------------------------------------------------
(* The ControllerStatus component: a probe at mount, then one per interval *)

MaxProbes == 2         \* probes one component starts

\* What a probe can meet: the answers of /healthz, or the 5 s deadline.
ProbeOutcomes == HealthOutcomes \cup {AbortError}

\* What checkControllerHealth() returns for it.
ProbeResult(e) ==
    IF e.type = "response" THEN HealthTry(e, 0)
    ELSE IF e = AbortError THEN HealthCatch(e, HealthTimeoutMs)
    ELSE HealthCatch(e, 0)

\* fetchStatus() up to its await: setLoading(true), and the probe is started
\* with the stored configuration.  React discards the update when the
\* component is unmounted.
FetchStatusStarts ==
    /\ Len(probes) < MaxProbes
    /\ probes' = Append(probes, [pc |-> "running", mountedAtReturn |-> FALSE,
                                 config |-> getPluginConfig(localStorage),
                                 result |-> NoResult])

\* React mounts the component: the first effect calls fetchStatus(), the
\* second sets the interval when autoRefresh is on.
Mount(autoRefresh) ==
    /\ ~component.mounted
    /\ ~component.unmounted
    /\ FetchStatusStarts
    /\ component' = [component EXCEPT
            !.mounted = TRUE, !.loading = TRUE,
            !.interval = IF autoRefresh THEN "set" ELSE "none"]
    /\ UNCHANGED <<retry, clientVars, crdVars, configVars, engineVars, flowVars,
                   metadata, scopeRead>>

\* refreshIntervalMs have passed: the interval calls fetchStatus(), whether
\* or not an earlier probe is still in flight.
IntervalFires ==
    /\ component.interval = "set"
    /\ FetchStatusStarts
    /\ component' = [component EXCEPT !.loading = TRUE]
    /\ UNCHANGED <<retry, clientVars, crdVars, configVars, engineVars, flowVars,
                   metadata, scopeRead>>

\* React unmounts the component: the cleanup of the interval effect runs.
Unmount ==
    /\ component.mounted
    /\ component' = [component EXCEPT
            !.mounted = FALSE, !.unmounted = TRUE,
            !.interval = IF @ = "set" THEN "cleared" ELSE @]
    /\ UNCHANGED <<retry, clientVars, crdVars, configVars, engineVars, flowVars,
                   metadata, scopeRead, probes>>

\* The probe p returns and fetchStatus() goes on after its await:
\* setStatus(result.value) when result.ok, then setLoading(false).
ProbeReturns(p, e) ==
    /\ p \in 1..Len(probes)
    /\ probes[p].pc = "running"
    /\ LET result == ProbeResult(e)
       IN  /\ probes' = [probes EXCEPT ![p] =
                    [@ EXCEPT !.pc = "done", !.result = result,
                              !.mountedAtReturn = component.mounted]]
           /\ component' =
                IF component.mounted
                THEN [component EXCEPT
                        !.status = IF result.ok THEN result.value ELSE @,
                        !.shown = IF result.ok THEN p ELSE @,
                        !.loading = FALSE]
                ELSE [component EXCEPT !.dropped = @ + 1]
    /\ UNCHANGED <<retry, clientVars, crdVars, configVars, engineVars, flowVars,
                   metadata, scopeRead>>

StatusNext ==
    \/ \E autoRefresh \in BOOLEAN : Mount(autoRefresh)
    \/ IntervalFires
    \/ Unmount
    \/ \E p \in 1..MaxProbes, e \in ProbeOutcomes : ProbeReturns(p, e)

SpecStatus == RetryInit /\ [][StatusNext]_vars

\* C38: the ControllerStatus indicator shows the newest probe: when probes
\* overlap (refresh interval shorter than a probe's duration) or complete
\* after the component unmounted, the displayed status is always the result
\* of the most recently started probe, no probe is started after unmount, and
\* a completed probe never updates state of an unmounted component.
NewestProbeShown ==
    /\ [](\A p \in 1..Len(probes) :
            (probes[p].pc = "done" /\ probes[p].mountedAtReturn) =>
                /\ component.shown >= p
                /\ component.status = probes[component.shown].result.value)
    /\ [][component.unmounted =>
            /\ Len(probes') = Len(probes)
            /\ component'.status = component.status
            /\ component'.loading = component.loading]_vars

====
